---- MODULE Spec2Model ----
(***************************************************************************)
(* Model of the warehouse economics calculator (data_model.py,             *)
(* calculations.py, main.py, ui.py, utils.py).                             *)
(*                                                                         *)
(* Numbers.  The program computes with Python ints and floats.  The model  *)
(* computes with exact rationals <<n, d>> (d > 0, lowest terms), so every  *)
(* +, -, *, / of the source is the exact operation; floating-point         *)
(* rounding is not modelled.  The source's strings are Cyrillic; the       *)
(* module gives each one an ASCII rendering, one distinct string per       *)
(* distinct source string.                                                 *)
(***************************************************************************)
EXTENDS Integers, Sequences, FiniteSets, TLC

VARIABLES
    params,         \* the WarehouseParams record of the evaluation
    pc,             \* position of the running script / driver
    is_valid,       \* main.py:587  first component of validate_inputs' result
    error_message,  \* main.py:587  second component
    areas,          \* main.py:589  the mapping returned by calculate_areas
    areas_scaled,   \* calculate_areas on the record with its shares scaled
    scale,          \* the factor the shares are scaled by
    calls,          \* the functions of the repository called so far
    st_error,       \* main.py:646  the message given to st.error
    items_dict,     \* main.py:602
    base_financials,\* main.py:608
    metrics,        \* main.py:609  <<profit_margin, profitability>>
    roi_val,        \* main.py:612
    cash_flows,     \* main.py:620
    irr_val,        \* main.py:621
    bep_val,        \* main.py:624
    min_loan,       \* ui.py:47
    df_projection,  \* ui.py:82
    tab3_bep,       \* ui.py:163  bep_income
    sweep,          \* ui.py:192-212  the locals of build_bep_df
    df_sensitivity, \* ui.py:222
    df_results,     \* ui.py:312
    args,           \* the arguments of the last direct call of a calculator
    result,         \* what that call returned
    rng_state,      \* the state of numpy's global generator (np.random)
    mc_first,       \* the first call of monte_carlo_simulation: args and table
    mc_last,        \* the latest call of monte_carlo_simulation: args and table
    mc_proc,        \* two evaluations inside monte_carlo_simulation at once
    shares,         \* st.session_state.shares, main.py:61-67
    share_log       \* the normalize_shares calls made: how many, and the last one

allocVars == <<areas_scaled, scale>>
resultVars == <<items_dict, base_financials, metrics, roi_val, cash_flows,
                irr_val, bep_val>>
tabVars == <<min_loan, df_projection, tab3_bep, sweep, df_sensitivity, df_results>>

calcVars == <<args, result, rng_state, mc_first, mc_last>>

sessVars == <<mc_proc, shares, share_log>>

vars == <<params, pc, is_valid, error_message, areas, calls, st_error,
          allocVars, resultVars, tabVars, calcVars, sessVars>>

-----------------------------------------------------------------------------
(* Exact rational arithmetic *)

RECURSIVE GCD(_, _)
GCD(a, b) == IF b = 0 THEN a ELSE GCD(b, a % b)

Abs(x) == IF x < 0 THEN -x ELSE x

\* n/d in lowest terms, for d > 0
Norm(n, d) ==
    IF n = 0 THEN <<0, 1>>
    ELSE LET g == GCD(Abs(n), d) IN <<n \div g, d \div g>>

R(n) == <<n, 1>>
Q(n, d) == Norm(n, d)
Zero == <<0, 1>>
One == <<1, 1>>

RNeg(x) == <<-x[1], x[2]>>
RAbs(x) == <<Abs(x[1]), x[2]>>

RAdd(x, y) ==
    LET g == GCD(x[2], y[2])
    IN  Norm(x[1] * (y[2] \div g) + y[1] * (x[2] \div g), (x[2] \div g) * y[2])

RSub(x, y) == RAdd(x, RNeg(y))

\* cross-reduced product: no intermediate exceeds the reduced result
RMul(x, y) ==
    IF x[1] = 0 \/ y[1] = 0 THEN Zero
    ELSE LET g1 == GCD(Abs(x[1]), y[2])
             g2 == GCD(Abs(y[1]), x[2])
         IN  <<(x[1] \div g1) * (y[1] \div g2), (x[2] \div g2) * (y[2] \div g1)>>

\* 1/y for y # 0
RInv(y) == IF y[1] > 0 THEN <<y[2], y[1]>> ELSE <<-y[2], -y[1]>>

RDiv(x, y) == RMul(x, RInv(y))

\* a/b < c/d for a, c >= 0 and b, d > 0, by continued fractions
RECURSIVE LtPos(_, _, _, _)
LtPos(a, b, c, d) ==
    LET q1 == a \div b
        q2 == c \div d
        r1 == a % b
        r2 == c % d
    IN  IF q1 # q2 THEN q1 < q2
        ELSE IF r2 = 0 THEN FALSE
        ELSE IF r1 = 0 THEN TRUE
        ELSE LtPos(d, r2, b, r1)

RLt(x, y) ==
    IF x[1] >= 0 /\ y[1] >= 0 THEN LtPos(x[1], x[2], y[1], y[2])
    ELSE IF x[1] < 0 /\ y[1] < 0 THEN LtPos(-y[1], y[2], -x[1], x[2])
    ELSE x[1] < 0

RLe(x, y) == ~RLt(y, x)
RGt(x, y) == RLt(y, x)
RGe(x, y) == ~RLt(x, y)

Sum4(a, b, c, d) == RAdd(RAdd(RAdd(a, b), c), d)

-----------------------------------------------------------------------------
(* data_model.py *)

\* the two values of WarehouseParams.mode
ModeAuto == "Avtomaticheskiy"
ModeManual == "Ruchnoy"

\* the literal 1e-9 of data_model.py:86 and calculations.py:37
Eps == <<1, 1000000000>>

\* the reason strings of validate_inputs, each a tuple <<text, values...>>
MsgNone == <<"">>
MsgTotalArea == <<"total area must exceed zero">>
MsgUsefulRatio == <<"useful area ratio must be between 0 and 1">>
MsgShareSumZero == <<"sum of storage shares must exceed zero">>
MsgShareSumOver == <<"sum of storage shares must not exceed 100%">>
MsgManualZero == <<"sum of manual areas must exceed zero">>
\* the f-string of data_model.py:96 carries the two values
MsgManualOver(total_manual_area, usable_area) ==
    <<"sum of manual areas exceeds usable area", total_manual_area, usable_area>>

\* Variant (not the code): the first rule tests total_area < 0
total_area_rejected_strict(p) == p.total_area[1] < 0

total_area_rejected(p) == RLe(p.total_area, Zero)

\* Variant (not the code): the ratio is tested before the total area
validate_inputs_ratio_first(p) ==
    IF ~(RLt(Zero, p.useful_area_ratio) /\ RLe(p.useful_area_ratio, One))
    THEN <<FALSE, MsgUsefulRatio>>
    ELSE IF total_area_rejected(p) THEN <<FALSE, MsgTotalArea>>
    ELSE IF p.mode = ModeAuto
        THEN LET total_share == Sum4(p.storage_share, p.loan_share,
                                     p.vip_share, p.short_term_share)
             IN  IF RLt(RAbs(total_share), Eps) THEN <<FALSE, MsgShareSumZero>>
                 ELSE IF RGt(total_share, One) THEN <<FALSE, MsgShareSumOver>>
                 ELSE <<TRUE, MsgNone>>
    ELSE LET total_manual_area == Sum4(p.storage_area_manual, p.loan_area_manual,
                                       p.vip_area_manual, p.short_term_area_manual)
             usable_area == RMul(p.total_area, p.useful_area_ratio)
         IN  IF total_manual_area = Zero THEN <<FALSE, MsgManualZero>>
             ELSE IF RGt(total_manual_area, usable_area)
                 THEN <<FALSE, MsgManualOver(total_manual_area, usable_area)>>
             ELSE <<TRUE, MsgNone>>

\* <<ok, reason>>
validate_inputs(p) ==
    IF total_area_rejected(p) THEN <<FALSE, MsgTotalArea>>
    ELSE IF ~(RLt(Zero, p.useful_area_ratio) /\ RLe(p.useful_area_ratio, One))
        THEN <<FALSE, MsgUsefulRatio>>
    ELSE IF p.mode = ModeAuto
        THEN LET total_share == Sum4(p.storage_share, p.loan_share,
                                     p.vip_share, p.short_term_share)
             IN  IF RLt(RAbs(total_share), Eps) THEN <<FALSE, MsgShareSumZero>>
                 ELSE IF RGt(total_share, One) THEN <<FALSE, MsgShareSumOver>>
                 ELSE <<TRUE, MsgNone>>
    ELSE LET total_manual_area == Sum4(p.storage_area_manual, p.loan_area_manual,
                                       p.vip_area_manual, p.short_term_area_manual)
             usable_area == RMul(p.total_area, p.useful_area_ratio)
         IN  IF total_manual_area = Zero THEN <<FALSE, MsgManualZero>>
             ELSE IF RGt(total_manual_area, usable_area)
                 THEN <<FALSE, MsgManualOver(total_manual_area, usable_area)>>
             ELSE <<TRUE, MsgNone>>

-----------------------------------------------------------------------------
(* calculations.py: calculate_areas *)

\* Variant (not the code): the allocator distributes the whole floor area
usable_area_of_total(p) == p.total_area

usable_area_of(p) == RMul(p.total_area, p.useful_area_ratio)

AreasRec(u, s, l, v, t) ==
    [usable_area |-> u, storage_area |-> s, loan_area |-> l,
     vip_area |-> v, short_term_area |-> t]

\* Variant (not the code): shares are applied to usable area without dividing by their sum
proportional_areas_unnormalised(p, usable_area) ==
    LET total_share == Sum4(p.storage_share, p.loan_share,
                            p.vip_share, p.short_term_share)
    IN  IF RLt(total_share, Eps)
        THEN AreasRec(usable_area, Zero, Zero, Zero, Zero)
        ELSE AreasRec(usable_area,
                      RMul(usable_area, p.storage_share),
                      RMul(usable_area, p.loan_share),
                      RMul(usable_area, p.vip_share),
                      RMul(usable_area, p.short_term_share))

\* Variant (not the code): shares that sum to less than 1 are not normalised
proportional_areas_capped(p, usable_area) ==
    LET total_share == Sum4(p.storage_share, p.loan_share,
                            p.vip_share, p.short_term_share)
        divisor == IF RGt(total_share, One) THEN total_share ELSE One
    IN  IF RLt(total_share, Eps)
        THEN AreasRec(usable_area, Zero, Zero, Zero, Zero)
        ELSE AreasRec(usable_area,
                      RMul(usable_area, RDiv(p.storage_share, divisor)),
                      RMul(usable_area, RDiv(p.loan_share, divisor)),
                      RMul(usable_area, RDiv(p.vip_share, divisor)),
                      RMul(usable_area, RDiv(p.short_term_share, divisor)))

proportional_areas(p, usable_area) ==
    LET total_share == Sum4(p.storage_share, p.loan_share,
                            p.vip_share, p.short_term_share)
        f(share) == IF RGt(total_share, Zero) THEN RDiv(share, total_share) ELSE Zero
    IN  IF RLt(total_share, Eps)
        THEN AreasRec(usable_area, Zero, Zero, Zero, Zero)
        ELSE AreasRec(usable_area,
                      RMul(usable_area, f(p.storage_share)),
                      RMul(usable_area, f(p.loan_share)),
                      RMul(usable_area, f(p.vip_share)),
                      RMul(usable_area, f(p.short_term_share)))

\* Variant (not the code): the overflow correction subtracts an equal part of the excess
manual_areas_subtract(p, usable_area) ==
    LET total_manual == Sum4(p.storage_area_manual, p.loan_area_manual,
                             p.vip_area_manual, p.short_term_area_manual)
        cut == RDiv(RSub(total_manual, usable_area), R(4))
    IN  IF RGt(total_manual, usable_area) /\ RGt(total_manual, Zero)
        THEN AreasRec(usable_area,
                      RSub(p.storage_area_manual, cut),
                      RSub(p.loan_area_manual, cut),
                      RSub(p.vip_area_manual, cut),
                      RSub(p.short_term_area_manual, cut))
        ELSE AreasRec(usable_area, p.storage_area_manual, p.loan_area_manual,
                      p.vip_area_manual, p.short_term_area_manual)

manual_areas(p, usable_area) ==
    LET total_manual == Sum4(p.storage_area_manual, p.loan_area_manual,
                             p.vip_area_manual, p.short_term_area_manual)
    IN  IF RGt(total_manual, usable_area) /\ RGt(total_manual, Zero)
        THEN LET factor == RDiv(usable_area, total_manual)
             IN  AreasRec(usable_area,
                          RMul(p.storage_area_manual, factor),
                          RMul(p.loan_area_manual, factor),
                          RMul(p.vip_area_manual, factor),
                          RMul(p.short_term_area_manual, factor))
        ELSE AreasRec(usable_area, p.storage_area_manual, p.loan_area_manual,
                      p.vip_area_manual, p.short_term_area_manual)

calculate_areas(p) ==
    LET usable_area == usable_area_of(p)
    IN  IF p.mode = ModeAuto
        THEN proportional_areas(p, usable_area)
        ELSE manual_areas(p, usable_area)

-----------------------------------------------------------------------------
(* calculations.py: the financial engine and the calculators *)

\* float('inf')
Inf == <<1, 0>>

\* the largest integer not above x
RFloor(x) == R(x[1] \div x[2])

\* Variant (not the code): the item count is rounded down to a whole number
calculate_items_floor(area, shelves, density) ==
    RFloor(RMul(RMul(area, shelves), density))

calculate_items(area, shelves, density) == RMul(RMul(area, shelves), density)

Sum5(a, b, c, d, e) == RAdd(Sum4(a, b, c, d), e)

\* the five one-time cost lines, calculations.py:138-139
total_one_time_of(p) ==
    Sum5(p.one_time_setup_cost, p.one_time_equipment_cost,
         p.one_time_other_costs, p.one_time_legal_cost, p.one_time_logistics_cost)

\* Variant (not the code): the call also clears the setup cost it has summed
params_after_financials_clearing(p) == [p EXCEPT !.one_time_expenses = total_one_time_of(p), !.one_time_setup_cost = Zero]

\* Variant (not the code): the total is added to what the field holds
params_after_financials_accumulating(p) == [p EXCEPT !.one_time_expenses = RAdd(p.one_time_expenses, total_one_time_of(p))]

\* the record after calculate_financials: its one write, calculations.py:140
params_after_financials(p) == [p EXCEPT !.one_time_expenses = total_one_time_of(p)]

\* Variant (not the code): the total is that of the four service categories,
\* the resale income left out
total_income_four(storage_income, short_term_income, realization_income, loan_income, vip_income, marketing_income) ==
    RAdd(Sum4(storage_income, short_term_income, loan_income, vip_income),
         marketing_income)

\* calculations.py:129
total_income_of(storage_income, short_term_income, realization_income, loan_income, vip_income, marketing_income) ==
    RAdd(Sum5(storage_income, short_term_income, realization_income,
              loan_income, vip_income), marketing_income)

\* Variant (not the code): without a positive horizon the one-time costs are
\* charged in full
profit_full_charge(p, total_income, total_monthly_expenses, one_time_expenses) ==
    IF p.time_horizon > 0
    THEN RSub(RSub(total_income, total_monthly_expenses),
              RDiv(one_time_expenses, R(p.time_horizon)))
    ELSE RSub(RSub(total_income, total_monthly_expenses), one_time_expenses)

\* calculations.py:142-145
profit_of(p, total_income, total_monthly_expenses, one_time_expenses) ==
    IF p.time_horizon > 0
    THEN RSub(RSub(total_income, total_monthly_expenses),
              RDiv(one_time_expenses, R(p.time_horizon)))
    ELSE RSub(total_income, total_monthly_expenses)

\* the mapping calculate_financials returns
financials_of(p) ==
    LET storage_items == calculate_items(p.storage_area, p.shelves_per_m2,
                                         p.storage_items_density)
        loan_items == calculate_items(p.loan_area, p.shelves_per_m2,
                                      p.loan_items_density)
        vip_items == calculate_items(p.vip_area, p.shelves_per_m2,
                                     p.vip_items_density)
        short_term_items == calculate_items(p.short_term_area, p.shelves_per_m2,
                                            p.short_term_items_density)
        storage_income == RMul(p.storage_area, p.storage_fee)
        vip_income == RMul(p.vip_area, RAdd(p.storage_fee, p.vip_extra_fee))
        short_term_income ==
            RMul(RMul(p.short_term_area, p.short_term_daily_rate), R(30))
        loan_evaluated_value ==
            RMul(RMul(p.average_item_value, p.item_evaluation), loan_items)
        daily_loan_interest_rate ==
            IF RGt(p.loan_interest_rate, Zero)
            THEN RDiv(p.loan_interest_rate, R(100)) ELSE Zero
        loan_income ==
            IF RGt(p.loan_interest_rate, Zero)
            THEN RMul(RMul(RMul(loan_evaluated_value, daily_loan_interest_rate),
                           RSub(One, p.default_probability)), R(30))
            ELSE Zero
        realization(items, share) ==
            RMul(RMul(RMul(p.average_item_value, p.item_evaluation),
                      RMul(items, share)),
                 RDiv(p.item_realization_markup, R(100)))
        storage_realization == realization(storage_items, p.realization_share_storage)
        loan_realization == realization(loan_items, p.realization_share_loan)
        vip_realization == realization(vip_items, p.realization_share_vip)
        short_term_realization ==
            realization(short_term_items, p.realization_share_short_term)
        realization_income ==
            Sum4(storage_realization, loan_realization, vip_realization,
                 short_term_realization)
        marketing_income == Zero
        total_income ==
            total_income_of(storage_income, short_term_income, realization_income,
                            loan_income, vip_income, marketing_income)
        monthly_rent == RMul(p.total_area, p.rental_cost_per_m2)
        total_monthly_expenses ==
            RAdd(Sum5(monthly_rent, p.salary_expense, p.miscellaneous_expenses,
                      p.depreciation_expense, p.marketing_expenses),
                 Sum4(p.insurance_expenses, p.taxes, p.utilities_expenses,
                      p.maintenance_expenses))
        one_time_expenses == total_one_time_of(p)
        profit ==
            profit_of(p, total_income, total_monthly_expenses, one_time_expenses)
        daily_storage_fee ==
            IF RGt(p.storage_fee, Zero) THEN RDiv(p.storage_fee, R(30)) ELSE Zero
    IN  [total_income |-> total_income,
         total_expenses |-> total_monthly_expenses,
         profit |-> profit,
         storage_income |-> storage_income,
         short_term_income |-> short_term_income,
         realization_income |-> realization_income,
         loan_income_after_realization |-> loan_income,
         vip_income |-> vip_income,
         marketing_income |-> marketing_income,
         daily_storage_fee |-> daily_storage_fee,
         storage_realization |-> storage_realization,
         loan_realization |-> loan_realization,
         vip_realization |-> vip_realization,
         short_term_realization |-> short_term_realization,
         storage_items |-> storage_items,
         loan_items |-> loan_items,
         vip_items |-> vip_items,
         short_term_items |-> short_term_items]

\* calculate_financials(params, disable_extended): the mapping returned and
\* the record as the call leaves it (disable_extended is never read)
calculate_financials(p) ==
    [fin |-> financials_of(p), params |-> params_after_financials(p)]

\* Variant (not the code): the one-time costs are not spread over the horizon
calculate_total_bep_monthly(financials, p) ==
    IF financials.total_income = Zero THEN Inf ELSE financials.total_expenses

\* Variant (not the code): no sentinel for a zero income
calculate_total_bep_no_sentinel(financials, p) ==
    RAdd(financials.total_expenses,
         IF p.time_horizon > 0
         THEN RDiv(p.one_time_expenses, R(p.time_horizon)) ELSE Zero)

\* Variant (not the code): the one-time costs are divided by every horizon
\* other than 0, a horizon guard that differs from the one of the profit
calculate_total_bep_any_horizon(financials, p) ==
    LET total_expenses ==
            RAdd(financials.total_expenses,
                 IF p.time_horizon # 0
                 THEN RDiv(p.one_time_expenses, R(p.time_horizon)) ELSE Zero)
    IN  IF financials.total_income = Zero THEN Inf ELSE total_expenses

calculate_total_bep(financials, p) ==
    LET total_expenses ==
            RAdd(financials.total_expenses,
                 IF p.time_horizon > 0
                 THEN RDiv(p.one_time_expenses, R(p.time_horizon)) ELSE Zero)
    IN  IF financials.total_income = Zero THEN Inf ELSE total_expenses

\* <<profit_margin, profitability>>
calculate_additional_metrics(total_income, total_expenses, profit) ==
    <<IF total_income # Zero
      THEN RMul(RDiv(profit, total_income), R(100)) ELSE Zero,
      IF total_expenses # Zero
      THEN RMul(RDiv(profit, total_expenses), R(100)) ELSE Zero>>

\* Variant (not the code): zero expenses give 0, as in calculate_additional_metrics
calculate_roi_zero_default(total_income, total_expenses) ==
    IF total_expenses # Zero
    THEN RMul(RDiv(RSub(total_income, total_expenses), total_expenses), R(100))
    ELSE Zero

calculate_roi(total_income, total_expenses) ==
    IF total_expenses # Zero
    THEN RMul(RDiv(RSub(total_income, total_expenses), total_expenses), R(100))
    ELSE Inf

RMax(x, y) == IF RLt(x, y) THEN y ELSE x

\* Variant (not the code): the one-time costs are left out of the expenses to cover
min_loan_amount_monthly_only(p, fin) ==
    LET loan_items == fin.loan_items
        daily_loan_interest_rate ==
            IF RGt(p.loan_interest_rate, Zero)
            THEN RDiv(p.loan_interest_rate, R(100)) ELSE Q(1, 10000)
        min_loan_value ==
            RDiv(RDiv(fin.total_expenses, loan_items),
                 RMul(daily_loan_interest_rate, R(30)))
    IN  IF RLe(loan_items, Zero) THEN Zero ELSE RMax(min_loan_value, Zero)

min_loan_amount_for_bep(p, fin) ==
    LET total_exp ==
            IF p.time_horizon > 0
            THEN RAdd(fin.total_expenses, RDiv(p.one_time_expenses, R(p.time_horizon)))
            ELSE fin.total_expenses
        loan_items == fin.loan_items
        daily_loan_interest_rate ==
            IF RGt(p.loan_interest_rate, Zero)
            THEN RDiv(p.loan_interest_rate, R(100)) ELSE Q(1, 10000)
        min_loan_value ==
            RDiv(RDiv(total_exp, loan_items), RMul(daily_loan_interest_rate, R(30)))
    IN  IF RLe(loan_items, Zero) THEN Zero ELSE RMax(min_loan_value, Zero)

\* What numpy_financial.irr may do on a cash-flow list: return a rate,
\* return NaN, return None, or raise.  The solver is a library outside the
\* repository; the model lets it do any of these.
IrrOutcomes == {<<"rate", Q(1, 10)>>, <<"nan">>, <<"none">>, <<"raise">>}

\* Natural numbers of any size, for the net present value of integer cash
\* flows: little-endian digit sequences to the base 10000, <<>> being 0
BigBase == 10000

RECURSIVE BigFromInt(_)
BigFromInt(v) == IF v = 0 THEN <<>> ELSE <<v % BigBase>> \o BigFromInt(v \div BigBase)

RECURSIVE BigMulCarry(_, _, _)
BigMulCarry(x, m, carry) ==
    IF x = <<>> THEN BigFromInt(carry)
    ELSE LET v == Head(x) * m + carry
         IN  <<v % BigBase>> \o BigMulCarry(Tail(x), m, v \div BigBase)

\* x * m for an integer 0 <= m <= 100000
BigMul(x, m) == IF m = 0 THEN <<>> ELSE BigMulCarry(x, m, 0)

RECURSIVE BigAddCarry(_, _, _)
BigAddCarry(x, y, carry) ==
    IF x = <<>> /\ y = <<>> THEN BigFromInt(carry)
    ELSE LET v == (IF x = <<>> THEN 0 ELSE Head(x))
                  + (IF y = <<>> THEN 0 ELSE Head(y)) + carry
         IN  <<v % BigBase>>
             \o BigAddCarry(IF x = <<>> THEN <<>> ELSE Tail(x),
                            IF y = <<>> THEN <<>> ELSE Tail(y), v \div BigBase)

BigAdd(x, y) == BigAddCarry(x, y, 0)

RECURSIVE BigLt(_, _)
BigLt(x, y) ==
    IF Len(x) # Len(y) THEN Len(x) < Len(y)
    ELSE IF x = <<>> THEN FALSE
    ELSE IF x[Len(x)] # y[Len(y)] THEN x[Len(x)] < y[Len(y)]
    ELSE BigLt(SubSeq(x, 1, Len(x) - 1), SubSeq(y, 1, Len(y) - 1))

\* x * m^e
RECURSIVE BigMulPow(_, _, _)
BigMulPow(x, m, e) == IF e = 0 THEN x ELSE BigMulPow(BigMul(x, m), m, e - 1)

\* Rates are counted in steps of 0.0001 (0.01 percentage points): the rate
\* of step k is k / RateScale
RateScale == 10000
RateOf(k) == Q(k, RateScale)

\* The net present value sum(values[t] / (1 + rate)^t) at the rate of step
\* k > -RateScale, times the positive number (RateScale + k)^T * RateScale^T
\* (T the last index), as the pair <<gains, losses>> of its positive and
\* negative terms
RECURSIVE NpvTerms(_, _, _)
NpvTerms(values, k, t) ==
    IF t > Len(values) THEN <<<<>>, <<>>>>
    ELSE LET rest == NpvTerms(values, k, t + 1)
             c == values[t]
             term == BigMulPow(BigMulPow(BigFromInt(Abs(c)), RateScale + k,
                                         Len(values) - t),
                               RateScale, t - 1)
         IN  IF c >= 0 THEN <<BigAdd(rest[1], term), rest[2]>>
             ELSE <<rest[1], BigAdd(rest[2], term)>>

\* the sign of the net present value of values at the rate of step k
NpvSign(values, k) ==
    LET terms == NpvTerms(values, k, 1)
    IN  IF BigLt(terms[2], terms[1]) THEN 1
        ELSE IF BigLt(terms[1], terms[2]) THEN -1 ELSE 0

\* the net present value has a root in [RateOf(k), RateOf(k + 1))
ZeroesNpv(values, k) ==
    LET here == NpvSign(values, k)
        next == NpvSign(values, k + 1)
    IN  here = 0 \/ (next # 0 /\ here # next)

\* the steps a solver is looked at on: rates from -20 % to +60 %
RateSteps == (0 - RateScale \div 5) .. (3 * (RateScale \div 5))

\* numpy_financial.irr(values), calculations.py:16: the library's contract
\* is a rate at which the net present value of values is zero, or NaN when
\* it finds none; like any call it may also raise, and calculate_irr
\* provides for a None.  A rate is given to the step it lies in.
npf_irr(values) ==
    {<<"rate", RateOf(k)>> : k \in {j \in RateSteps : ZeroesNpv(values, j)}}
    \cup {<<"nan">>, <<"none">>, <<"raise">>}

\* Variant (not the code): what the solver gives is passed on as it is,
\* whether a number or not
calculate_irr_unguarded(outcome) ==
    IF outcome[1] = "rate" THEN RMul(outcome[2], R(100)) ELSE outcome

\* Variant (not the code): the rate is returned as a fraction, not in percent
calculate_irr_fraction(outcome) ==
    IF outcome[1] = "rate" THEN outcome[2] ELSE Zero

\* calculate_irr, given what npf.irr did
calculate_irr(outcome) ==
    IF outcome[1] = "rate" THEN RMul(outcome[2], R(100)) ELSE Zero

\* numpy.linspace(start, stop, num)[i] for 0 <= i < num
linspace(start, stop, num, i) ==
    IF i = 0 THEN start
    ELSE IF i = num - 1 THEN stop
    ELSE RAdd(start, RMul(R(i), RDiv(RSub(stop, start), R(num - 1))))

-----------------------------------------------------------------------------
(* The record the tests build (test_calculations.py), the base of every    *)
(* record the model draws; the last seven fields are the dataclass         *)
(* defaults.                                                               *)

TestParams ==
    [total_area |-> R(100), rental_cost_per_m2 |-> R(10),
     useful_area_ratio |-> Q(1, 2), mode |-> ModeAuto,
     storage_share |-> Q(1, 4), loan_share |-> Q(1, 4),
     vip_share |-> Q(1, 4), short_term_share |-> Q(1, 4),
     storage_area_manual |-> Zero, loan_area_manual |-> Zero,
     vip_area_manual |-> Zero, short_term_area_manual |-> Zero,
     storage_fee |-> R(15), shelves_per_m2 |-> R(3),
     short_term_daily_rate |-> R(6), vip_extra_fee |-> R(10),
     item_evaluation |-> Q(4, 5), item_realization_markup |-> R(20),
     average_item_value |-> R(15000), loan_interest_rate |-> Q(317, 1000),
     realization_share_storage |-> Q(1, 2), realization_share_loan |-> Q(1, 2),
     realization_share_vip |-> Q(1, 2), realization_share_short_term |-> Q(1, 2),
     storage_items_density |-> R(5), loan_items_density |-> R(1),
     vip_items_density |-> R(2), short_term_items_density |-> R(4),
     salary_expense |-> R(240000), miscellaneous_expenses |-> R(50000),
     depreciation_expense |-> R(20000), marketing_expenses |-> R(30000),
     insurance_expenses |-> R(10000), taxes |-> R(50000),
     utilities_expenses |-> R(20000), maintenance_expenses |-> R(15000),
     one_time_setup_cost |-> R(100000), one_time_equipment_cost |-> R(200000),
     one_time_other_costs |-> R(50000), one_time_legal_cost |-> R(20000),
     one_time_logistics_cost |-> R(30000),
     time_horizon |-> 6, monthly_rent_growth |-> Q(1, 100),
     default_probability |-> Q(1, 20), liquidity_factor |-> One,
     safety_factor |-> Q(6, 5), loan_grace_period |-> 0,
     monthly_income_growth |-> Zero, monthly_expenses_growth |-> Zero,
     forecast_method |-> "Bazovyy", monte_carlo_simulations |-> 100,
     monte_carlo_deviation |-> Q(1, 10), monte_carlo_seed |-> 42,
     enable_ml_settings |-> FALSE,
     one_time_expenses |-> Zero, usable_area |-> Zero, storage_area |-> Zero,
     loan_area |-> Zero, vip_area |-> Zero, short_term_area |-> Zero,
     payback_period |-> Zero]

\* a variable the script has not yet assigned
Unset == "unset"

-----------------------------------------------------------------------------
(* Direct calls of the validator and the allocator, as the tests make      *)
(* them: any record, valid or not.                                         *)

\* bounds of the records drawn
MaxShareUnits == 2
MaxManualUnits == 4

\* a share is a whole number of quarters, or of 1e-9's
ShareUnits == {Q(1, 4), Eps}
ShareCounts == -1 .. MaxShareUnits
\* a manual area is a whole number of tens of square metres
ManualCounts == -1 .. MaxManualUnits
TotalAreas == {R(-10), Zero, R(100)}
UsefulRatios == {Zero, Q(1, 2), Q(4, 5), Q(3, 2)}
Scales == {Q(1, 2), R(3)}

WithShares(p, u, a, b, c, d) ==
    [p EXCEPT !.mode = ModeAuto,
              !.storage_share = RMul(R(a), u), !.loan_share = RMul(R(b), u),
              !.vip_share = RMul(R(c), u), !.short_term_share = RMul(R(d), u)]

WithManual(p, a, b, c, d) ==
    [p EXCEPT !.mode = ModeManual,
              !.storage_area_manual = R(10 * a), !.loan_area_manual = R(10 * b),
              !.vip_area_manual = R(10 * c), !.short_term_area_manual = R(10 * d)]

WithGeometry(p, t, r) == [p EXCEPT !.total_area = t, !.useful_area_ratio = r]

\* the record with each of its four shares multiplied by c
ScaleShares(p, c) ==
    [p EXCEPT !.storage_share = RMul(c, @), !.loan_share = RMul(c, @),
              !.vip_share = RMul(c, @), !.short_term_share = RMul(c, @)]

ShareSum(p) == Sum4(p.storage_share, p.loan_share, p.vip_share, p.short_term_share)
ManualSum(p) == Sum4(p.storage_area_manual, p.loan_area_manual,
                     p.vip_area_manual, p.short_term_area_manual)
AreaSum(a) == Sum4(a.storage_area, a.loan_area, a.vip_area, a.short_term_area)

InitAlloc ==
    /\ \E t \in TotalAreas, r \in UsefulRatios :
          \/ \E u \in ShareUnits, a, b, c, d \in ShareCounts :
                /\ params = WithShares(WithGeometry(TestParams, t, r), u, a, b, c, d)
                /\ scale \in Scales
          \/ \E a, b, c, d \in ManualCounts :
                /\ params = WithManual(WithGeometry(TestParams, t, r), a, b, c, d)
                /\ scale = One
    /\ pc = "start"
    /\ is_valid = Unset
    /\ error_message = Unset
    /\ areas = Unset
    /\ areas_scaled = Unset
    /\ calls = {} /\ st_error = Unset
    /\ items_dict = Unset /\ base_financials = Unset /\ metrics = Unset
    /\ roi_val = Unset /\ cash_flows = Unset /\ irr_val = Unset /\ bep_val = Unset
    /\ min_loan = Unset /\ df_projection = Unset /\ tab3_bep = Unset
    /\ sweep = Unset /\ df_sensitivity = Unset /\ df_results = Unset
    /\ args = Unset /\ result = Unset /\ rng_state = Unset
    /\ mc_first = Unset /\ mc_last = Unset
    /\ mc_proc = Unset /\ shares = Unset /\ share_log = Unset

CallValidate ==
    /\ pc = "start"
    /\ is_valid' = validate_inputs(params)[1]
    /\ error_message' = validate_inputs(params)[2]
    /\ pc' = "validated"
    /\ calls' = calls \cup {"validate_inputs"}
    /\ UNCHANGED <<params, areas, areas_scaled, scale, st_error, resultVars, tabVars>>
    /\ UNCHANGED calcVars
    /\ UNCHANGED sessVars

CallCalculateAreas ==
    /\ pc = "validated"
    /\ areas' = calculate_areas(params)
    /\ pc' = "allocated"
    /\ calls' = calls \cup {"calculate_areas"}
    /\ UNCHANGED <<params, is_valid, error_message, areas_scaled, scale, st_error,
                   resultVars, tabVars>>
    /\ UNCHANGED calcVars
    /\ UNCHANGED sessVars

CallCalculateAreasScaled ==
    /\ pc = "allocated"
    /\ areas_scaled' = calculate_areas(ScaleShares(params, scale))
    /\ pc' = "scaled"
    /\ UNCHANGED <<params, is_valid, error_message, areas, scale, calls, st_error,
                   resultVars, tabVars>>
    /\ UNCHANGED calcVars
    /\ UNCHANGED sessVars

NextAlloc == CallValidate \/ CallCalculateAreas \/ CallCalculateAreasScaled

SpecAlloc == InitAlloc /\ [][NextAlloc]_vars

-----------------------------------------------------------------------------
(* main.py:587-646: one run of the script on the record built from the     *)
(* sidebar widgets, followed by the four tabs of ui.py                     *)

\* bounds of the records the sidebar is made to supply
ShareParts == 2
MaxSidebarManual == 1

\* the widgets allow: total_area >= 1, useful_area_ratio in 0.40 .. 0.80,
\* shelves_per_m2 in 1 .. 100, manual areas >= 0, and shares that
\* normalize_shares and the "disable" checkboxes leave summing to 1 or all 0
SidebarRatios == {Q(1, 2), Q(4, 5)}
SidebarShelves == {R(1), R(3)}
SidebarShares ==
    {s \in [1 .. 4 -> 0 .. ShareParts] :
        s[1] + s[2] + s[3] + s[4] \in {0, ShareParts}}
SidebarManual == [1 .. 4 -> 0 .. MaxSidebarManual]

SidebarRecords ==
    {[WithShares(TestParams, Q(1, ShareParts), s[1], s[2], s[3], s[4])
         EXCEPT !.useful_area_ratio = r, !.shelves_per_m2 = h] :
        s \in SidebarShares, r \in SidebarRatios, h \in SidebarShelves}
    \cup
    {[WithManual(TestParams, 2 * m[1], 2 * m[2], 2 * m[3], 2 * m[4])
         EXCEPT !.useful_area_ratio = r, !.shelves_per_m2 = h] :
        m \in SidebarManual, r \in SidebarRatios, h \in SidebarShelves}

Init ==
    /\ params \in SidebarRecords
    /\ pc = "validate"
    /\ is_valid = Unset /\ error_message = Unset /\ areas = Unset
    /\ areas_scaled = Unset /\ scale = One
    /\ calls = {} /\ st_error = Unset
    /\ items_dict = Unset /\ base_financials = Unset /\ metrics = Unset
    /\ roi_val = Unset /\ cash_flows = Unset /\ irr_val = Unset /\ bep_val = Unset
    /\ min_loan = Unset /\ df_projection = Unset /\ tab3_bep = Unset
    /\ sweep = Unset /\ df_sensitivity = Unset /\ df_results = Unset
    /\ args = Unset /\ result = Unset /\ rng_state = Unset
    /\ mc_first = Unset /\ mc_last = Unset
    /\ mc_proc = Unset /\ shares = Unset /\ share_log = Unset

\* Variant (not the code): the script goes on whatever the validator said
proceeds_always(ok) == TRUE

\* main.py:588  if is_valid:
proceeds(ok) == ok

\* main.py:587-588 and, for a rejected record, 645-646
MainValidate ==
    /\ pc = "validate"
    /\ is_valid' = validate_inputs(params)[1]
    /\ error_message' = validate_inputs(params)[2]
    /\ calls' = calls \cup {"validate_inputs"}
    /\ IF proceeds(validate_inputs(params)[1])
       THEN pc' = "allocate" /\ st_error' = st_error
       ELSE pc' = "rejected" /\ st_error' = validate_inputs(params)[2]
    /\ UNCHANGED <<params, areas, allocVars, resultVars, tabVars>>
    /\ UNCHANGED calcVars
    /\ UNCHANGED sessVars

\* the setattr loop of main.py:590-591
copy_areas(p, a) ==
    [p EXCEPT !.usable_area = a.usable_area, !.storage_area = a.storage_area,
              !.loan_area = a.loan_area, !.vip_area = a.vip_area,
              !.short_term_area = a.short_term_area]

\* main.py:589-591
MainAllocate ==
    /\ pc = "allocate"
    /\ areas' = calculate_areas(params)
    /\ params' = copy_areas(params, calculate_areas(params))
    /\ calls' = calls \cup {"calculate_areas"}
    /\ pc' = "shelves"
    /\ UNCHANGED <<is_valid, error_message, st_error, allocVars, resultVars, tabVars>>
    /\ UNCHANGED calcVars
    /\ UNCHANGED sessVars

\* SHELF_AREA_PER_SHELF = 0.1, main.py:595
SHELF_AREA_PER_SHELF == Q(1, 10)

\* Variant (not the code): the adjustment also recomputes usable_area from the new total
shelf_adjusted_refreshing(p) ==
    LET number_of_shelves == RMul(p.shelves_per_m2, p.storage_area)
        shelves_area == RMul(number_of_shelves, SHELF_AREA_PER_SHELF)
    IN  [p EXCEPT !.storage_area = RAdd(@, shelves_area),
                  !.total_area = RAdd(@, shelves_area),
                  !.usable_area = RMul(RAdd(p.total_area, shelves_area),
                                       p.useful_area_ratio)]

\* main.py:595-599
shelf_adjusted(p) ==
    LET number_of_shelves == RMul(p.shelves_per_m2, p.storage_area)
        shelves_area == RMul(number_of_shelves, SHELF_AREA_PER_SHELF)
    IN  [p EXCEPT !.storage_area = RAdd(@, shelves_area),
                  !.total_area = RAdd(@, shelves_area)]

MainShelves ==
    /\ pc = "shelves"
    /\ params' = shelf_adjusted(params)
    /\ pc' = "items"
    /\ UNCHANGED <<is_valid, error_message, areas, calls, st_error,
                   allocVars, resultVars, tabVars>>
    /\ UNCHANGED calcVars
    /\ UNCHANGED sessVars

\* main.py:602-607
MainItems ==
    /\ pc = "items"
    /\ items_dict' =
          [stored_items |-> calculate_items(params.storage_area,
               params.shelves_per_m2, params.storage_items_density),
           total_items_loan |-> calculate_items(params.loan_area,
               params.shelves_per_m2, params.loan_items_density),
           vip_stored_items |-> calculate_items(params.vip_area,
               params.shelves_per_m2, params.vip_items_density),
           short_term_stored_items |-> calculate_items(params.short_term_area,
               params.shelves_per_m2, params.short_term_items_density)]
    /\ calls' = calls \cup {"calculate_items"}
    /\ pc' = "financials"
    /\ UNCHANGED <<params, is_valid, error_message, areas, st_error, allocVars,
                   base_financials, metrics, roi_val, cash_flows, irr_val,
                   bep_val, tabVars>>
    /\ UNCHANGED calcVars
    /\ UNCHANGED sessVars

\* main.py:608
MainFinancials ==
    /\ pc = "financials"
    /\ base_financials' = calculate_financials(params).fin
    /\ params' = calculate_financials(params).params
    /\ calls' = calls \cup {"calculate_financials", "calculate_items"}
    /\ pc' = "metrics"
    /\ UNCHANGED <<is_valid, error_message, areas, st_error, allocVars,
                   items_dict, metrics, roi_val, cash_flows, irr_val, bep_val,
                   tabVars>>
    /\ UNCHANGED calcVars
    /\ UNCHANGED sessVars

\* main.py:609-612
MainMetrics ==
    /\ pc = "metrics"
    /\ metrics' = calculate_additional_metrics(base_financials.total_income,
                      base_financials.total_expenses, base_financials.profit)
    /\ roi_val' = calculate_roi(base_financials.total_income,
                                base_financials.total_expenses)
    /\ calls' = calls \cup {"calculate_additional_metrics", "calculate_roi"}
    /\ pc' = "irr"
    /\ UNCHANGED <<params, is_valid, error_message, areas, st_error, allocVars,
                   items_dict, base_financials, cash_flows, irr_val, bep_val,
                   tabVars>>
    /\ UNCHANGED calcVars
    /\ UNCHANGED sessVars

\* main.py:615-620
cash_flows_of(p, fin) ==
    <<RNeg(RAdd(RAdd(p.one_time_setup_cost, p.one_time_equipment_cost),
                p.one_time_other_costs))>>
    \o [i \in 1 .. (IF p.time_horizon > 0 THEN p.time_horizon ELSE 0) |-> fin.profit]

\* main.py:615-622
MainIrr ==
    /\ pc = "irr"
    /\ cash_flows' = cash_flows_of(params, base_financials)
    /\ \E outcome \in IrrOutcomes : irr_val' = calculate_irr(outcome)
    /\ calls' = calls \cup {"calculate_irr"}
    /\ pc' = "bep"
    /\ UNCHANGED <<params, is_valid, error_message, areas, st_error, allocVars,
                   items_dict, base_financials, metrics, roi_val, bep_val,
                   tabVars>>
    /\ UNCHANGED calcVars
    /\ UNCHANGED sessVars

\* main.py:624-640; enable_ml_settings is off, so no model file is loaded
MainBep ==
    /\ pc = "bep"
    /\ bep_val' = calculate_total_bep(base_financials, params)
    /\ calls' = calls \cup {"calculate_total_bep"}
    /\ pc' = "tab1"
    /\ UNCHANGED <<params, is_valid, error_message, areas, st_error, allocVars,
                   items_dict, base_financials, metrics, roi_val, cash_flows,
                   irr_val, tabVars>>
    /\ UNCHANGED calcVars
    /\ UNCHANGED sessVars

\* ui.py:16-62
DisplayTab1 ==
    /\ pc = "tab1"
    /\ min_loan' = min_loan_amount_for_bep(params, base_financials)
    /\ calls' = calls \cup {"min_loan_amount_for_bep"}
    /\ pc' = "tab2"
    /\ UNCHANGED <<params, is_valid, error_message, areas, st_error, allocVars,
                   resultVars, df_projection, tab3_bep, sweep, df_sensitivity,
                   df_results>>
    /\ UNCHANGED calcVars
    /\ UNCHANGED sessVars

\* the "Bazovyy" table of ui.py:82-95, one <<month, income, expenses, profit>>
\* per month
projection_of(p, fin) ==
    LET n == IF p.time_horizon > 0 THEN p.time_horizon ELSE 0
        income(i) ==
            linspace(fin.total_income,
                     RMul(fin.total_income,
                          RAdd(One, RMul(p.monthly_income_growth, R(p.time_horizon)))),
                     n, i)
        expense(i) ==
            linspace(fin.total_expenses,
                     RMul(fin.total_expenses,
                          RAdd(One, RMul(p.monthly_expenses_growth, R(p.time_horizon)))),
                     n, i)
    IN  [m \in 1 .. n |->
            <<m, income(m - 1), expense(m - 1), RSub(income(m - 1), expense(m - 1))>>]

\* ui.py:64-147 for forecast_method "Bazovyy", the method every record
\* drawn here selects
DisplayTab2 ==
    /\ pc = "tab2"
    /\ params.forecast_method = "Bazovyy"
    /\ df_projection' = projection_of(params, base_financials)
    /\ pc' = "tab3"
    /\ UNCHANGED <<params, is_valid, error_message, areas, calls, st_error,
                   allocVars, resultVars, min_loan, tab3_bep, sweep,
                   df_sensitivity, df_results>>
    /\ UNCHANGED calcVars
    /\ UNCHANGED sessVars

\* ui.py:163-187
DisplayTab3Bep ==
    /\ pc = "tab3"
    /\ tab3_bep' = calculate_total_bep(base_financials, params)
    /\ calls' = calls \cup {"calculate_total_bep"}
    /\ sweep' = [next |-> 1]
    /\ pc' = "sweep_begin"
    /\ UNCHANGED <<params, is_valid, error_message, areas, st_error, allocVars,
                   resultVars, min_loan, df_projection, df_sensitivity,
                   df_results>>
    /\ UNCHANGED calcVars
    /\ UNCHANGED sessVars

\* the keys of analysis_params in order, ui.py:215-219
analysis_params == <<"storage_fee", "vip_extra_fee", "short_term_daily_rate">>

\* the number of points of np.linspace in build_bep_df, ui.py:201
SweepPoints == 50

\* the key of the k-th sweep
swept_key(k) == analysis_params[k]

\* vals[i] of build_bep_df, ui.py:201 (i from 0)
sweep_val(base_val, i) ==
    linspace(IF RGt(base_val, Zero) THEN RMul(base_val, Q(1, 2)) ELSE Q(1, 10),
             IF RGt(base_val, Zero) THEN RMul(base_val, Q(3, 2)) ELSE Q(3, 2),
             SweepPoints, i)

\* ui.py:222 (the call) and 201-204
SweepBegin ==
    /\ pc = "sweep_begin"
    /\ sweep.next <= Len(analysis_params)
    /\ sweep' = [next |-> sweep.next, param_key |-> swept_key(sweep.next),
                 base_val |-> params[swept_key(sweep.next)],
                 orig_val |-> params[swept_key(sweep.next)],
                 i |-> 0, profits |-> <<>>, bep_incomes |-> <<>>]
    /\ pc' = "sweep_loop"
    /\ UNCHANGED <<params, is_valid, error_message, areas, calls, st_error,
                   allocVars, resultVars, min_loan, df_projection, tab3_bep,
                   df_sensitivity, df_results>>
    /\ UNCHANGED calcVars
    /\ UNCHANGED sessVars

\* one turn of the loop of ui.py:205-210
SweepStep ==
    /\ pc = "sweep_loop"
    /\ sweep.i < SweepPoints
    /\ LET set == [params EXCEPT ![sweep.param_key] = sweep_val(sweep.base_val, sweep.i)]
           res == calculate_financials(set)
       IN  /\ params' = res.params
           /\ sweep' = [sweep EXCEPT
                  !.i = @ + 1,
                  !.profits = Append(@, res.fin.profit),
                  !.bep_incomes = Append(@, calculate_total_bep(res.fin, res.params))]
    /\ calls' = calls \cup {"calculate_financials", "calculate_items",
                            "calculate_total_bep"}
    /\ UNCHANGED <<pc, is_valid, error_message, areas, st_error, allocVars,
                   resultVars, min_loan, df_projection, tab3_bep,
                   df_sensitivity, df_results>>
    /\ UNCHANGED calcVars
    /\ UNCHANGED sessVars

\* ui.py:211-212 and the rest of the loop body of ui.py:221-228
SweepEnd ==
    /\ pc = "sweep_loop"
    /\ sweep.i = SweepPoints
    /\ params' = [params EXCEPT ![sweep.param_key] = sweep.orig_val]
    /\ df_sensitivity' = [param_key |-> sweep.param_key,
                          profits |-> sweep.profits,
                          bep_incomes |-> sweep.bep_incomes]
    /\ sweep' = [next |-> sweep.next + 1]
    /\ pc' = IF sweep.next < Len(analysis_params) THEN "sweep_begin" ELSE "tab4"
    /\ UNCHANGED <<is_valid, error_message, areas, calls, st_error, allocVars,
                   resultVars, min_loan, df_projection, tab3_bep, df_results>>
    /\ UNCHANGED calcVars
    /\ UNCHANGED sessVars

\* ui.py:230-354: the values of df_results that are computed here
DisplayTab4 ==
    /\ pc = "tab4"
    /\ df_results' =
          [metrics |-> calculate_additional_metrics(base_financials.total_income,
                           base_financials.total_expenses, base_financials.profit),
           roi_val |-> calculate_roi(base_financials.total_income,
                                     base_financials.total_expenses),
           irr_val |-> irr_val,
           min_loan |-> min_loan_amount_for_bep(params, base_financials),
           one_time_expenses |-> params.one_time_expenses,
           bep_income |-> calculate_total_bep(base_financials, params),
           current_income |-> base_financials.total_income]
    /\ calls' = calls \cup {"calculate_additional_metrics", "calculate_roi",
                            "calculate_total_bep", "min_loan_amount_for_bep"}
    /\ pc' = "done"
    /\ UNCHANGED <<params, is_valid, error_message, areas, st_error, allocVars,
                   resultVars, min_loan, df_projection, tab3_bep, sweep,
                   df_sensitivity>>
    /\ UNCHANGED calcVars
    /\ UNCHANGED sessVars

Next ==
    \/ MainValidate \/ MainAllocate \/ MainShelves \/ MainItems
    \/ MainFinancials \/ MainMetrics \/ MainIrr \/ MainBep
    \/ DisplayTab1 \/ DisplayTab2 \/ DisplayTab3Bep
    \/ SweepBegin \/ SweepStep \/ SweepEnd \/ DisplayTab4

Spec == Init /\ [][Next]_vars

-----------------------------------------------------------------------------
(* Claims about the validator and the allocator called directly            *)
(* (specification SpecAlloc)                                               *)

Validated == pc \in {"validated", "allocated", "scaled"}
Allocated == pc \in {"allocated", "scaled"}
GeometryOk(p) ==
    /\ RGt(p.total_area, Zero)
    /\ RGt(p.useful_area_ratio, Zero)
    /\ RLe(p.useful_area_ratio, One)

\* C1: for every record validate_inputs accepts, the four areas returned by
\* calculate_areas sum to at most total_area * useful_area_ratio, in
\* proportional and in manual mode.
C1_AreasWithinUsable ==
    (Allocated /\ is_valid) =>
        RLe(AreaSum(areas), RMul(params.total_area, params.useful_area_ratio))

\* C1 witness: an accepted proportional record whose shares sum to less than
\* 1 has been allocated, and its areas fill the usable area exactly.
C1_Witness ==
    /\ pc = "allocated" /\ is_valid /\ params.mode = ModeAuto
    /\ RLt(ShareSum(params), One)
    /\ RLt(params.useful_area_ratio, One)
    /\ AreaSum(areas) = RMul(params.total_area, params.useful_area_ratio)

\* C6 (the claim as stated): in proportional mode with valid geometry,
\* validate_inputs accepts exactly the records whose share sum is greater
\* than 1e-9 and at most 1.
C6_ShareRuleIff ==
    (Validated /\ params.mode = ModeAuto /\ GeometryOk(params)) =>
        (is_valid <=> (RGt(ShareSum(params), Eps) /\ RLe(ShareSum(params), One)))

\* C7 (the claim as stated): in manual mode with valid geometry,
\* validate_inputs accepts exactly the records whose manual-area sum is
\* greater than 0 and at most total_area * useful_area_ratio.
C7_ManualRuleIff ==
    (Validated /\ params.mode = ModeManual /\ GeometryOk(params)) =>
        (is_valid <=> (/\ RGt(ManualSum(params), Zero)
                       /\ RLe(ManualSum(params),
                              RMul(params.total_area, params.useful_area_ratio))))

\* C8: every record whose total_area is not greater than zero is rejected,
\* whatever its other fields, with the one fixed reason "total area must
\* exceed zero", which carries no value of the record.
C8_TotalAreaRejected ==
    (Validated /\ RLe(params.total_area, Zero)) =>
        (is_valid = FALSE /\ error_message = MsgTotalArea)

\* C8 witness: the record with total_area = -10 has been validated and
\* rejected with that reason.
C8_Witness ==
    /\ pc = "validated" /\ params.total_area = R(-10)
    /\ is_valid = FALSE /\ error_message = MsgTotalArea

\* C9 (the claim as stated): in proportional mode, calculate_areas returns
\* the same four areas for the shares and for the shares multiplied by any
\* positive constant.
C9_ScaleInvariantAll ==
    (pc = "scaled" /\ params.mode = ModeAuto) => areas = areas_scaled

\* C9 amended: the areas are the same provided the scaling does not move the
\* share sum across the allocator's 1e-9 threshold (both sums below it, or
\* neither).
C9_ScaleInvariant ==
    (/\ pc = "scaled" /\ params.mode = ModeAuto
     /\ (RLt(ShareSum(params), Eps) <=> RLt(RMul(scale, ShareSum(params)), Eps)))
        => areas = areas_scaled

\* C9 witness: shares with a sum of at least 1e-9 before and after scaling
\* were allocated twice, to the same non-zero areas.
C9_Witness ==
    /\ pc = "scaled" /\ params.mode = ModeAuto
    /\ RGe(ShareSum(params), Eps) /\ RGe(RMul(scale, ShareSum(params)), Eps)
    /\ scale # One
    /\ areas.storage_area # Zero /\ areas.storage_area # areas.usable_area
    /\ areas = areas_scaled

ManualOf(p) ==
    AreasRec(usable_area_of(p), p.storage_area_manual, p.loan_area_manual,
             p.vip_area_manual, p.short_term_area_manual)

AreaKeys == {"storage_area", "loan_area", "vip_area", "short_term_area"}

\* a is m with every area multiplied by usable / total: the pairwise
\* proportions of m are kept and the areas sum to usable
ScaledDown(a, m, usable, total) ==
    /\ \A k \in AreaKeys : RMul(a[k], total) = RMul(m[k], usable)
    /\ \A j, k \in AreaKeys : RMul(a[j], m[k]) = RMul(a[k], m[j])
    /\ AreaSum(a) = usable

\* C10 (the claim as stated): in manual mode, whenever the manual areas sum
\* to more than usable area each is returned multiplied by usable / sum,
\* and otherwise the four are returned unchanged.
C10_ManualOverflowAll ==
    (Allocated /\ params.mode = ModeManual) =>
        IF RGt(ManualSum(params), usable_area_of(params))
        THEN ScaledDown(areas, ManualOf(params), usable_area_of(params),
                        ManualSum(params))
        ELSE areas = ManualOf(params)

\* C10 amended: the areas are scaled by usable / sum whenever the sum exceeds
\* usable area and is positive; in every other case (a sum within usable
\* area, or a sum that is zero or negative) they are returned unchanged.
\* Inputs (10, 20, 30, 40) with usable area 80 give (8, 16, 24, 32).
C10_ManualOverflow ==
    (Allocated /\ params.mode = ModeManual) =>
        /\ IF /\ RGt(ManualSum(params), usable_area_of(params))
              /\ RGt(ManualSum(params), Zero)
           THEN ScaledDown(areas, ManualOf(params), usable_area_of(params),
                           ManualSum(params))
           ELSE areas = ManualOf(params)
        /\ (/\ ManualOf(params) = AreasRec(R(80), R(10), R(20), R(30), R(40)))
              => areas = AreasRec(R(80), R(8), R(16), R(24), R(32))

\* C10 witness: the manual areas (10, 20, 30, 40) were allocated in a usable
\* area of 80 and came back as (8, 16, 24, 32).
C10_Witness ==
    /\ pc = "allocated" /\ params.mode = ModeManual
    /\ ManualOf(params) = AreasRec(R(80), R(10), R(20), R(30), R(40))
    /\ areas = AreasRec(R(80), R(8), R(16), R(24), R(32))

-----------------------------------------------------------------------------
(* Claims about one run of the script (specification Spec)                 *)

\* the allocator's results have been copied onto the record
AfterCopy == pc \notin {"validate", "allocate", "rejected"}

\* C2 (the claim as stated): in every state after the allocator's results
\* are on the record, the record's four area fields sum to at most its
\* usable_area field.
C2_FieldsWithinUsable ==
    AfterCopy => RLe(AreaSum(params), params.usable_area)

\* C3 (the claim as stated): in every state after allocation the record's
\* usable_area equals its total_area times its useful_area_ratio.
C3_UsableIsTotalTimesRatio ==
    AfterCopy =>
        params.usable_area = RMul(params.total_area, params.useful_area_ratio)

\* C4 (the claim as stated): the record is written once, by the copy of the
\* allocator's results; no other step of the run changes any field of it.
C4_WrittenOnce ==
    [][pc # "allocate" => params' = params]_vars

\* the fields written after the copy: by the shelf adjustment
\* (main.py:598-599), by calculate_financials (calculations.py:140) and by
\* the sweeps of the break-even tab (ui.py:206, 211)
RewrittenFields ==
    {"storage_area", "total_area", "one_time_expenses",
     "storage_fee", "vip_extra_fee", "short_term_daily_rate"}

CopiedFields ==
    {"usable_area", "storage_area", "loan_area", "vip_area", "short_term_area"}

\* C4 amended: the copy writes the five area fields and nothing else; after
\* it the record is written again, but only in storage_area and total_area
\* (shelf adjustment), one_time_expenses (calculate_financials) and the
\* three tariffs the break-even tab sweeps; every other field is read-only
\* from the copy to the end of the run.
C4_WrittenFieldsOnly ==
    [][\A f \in DOMAIN params :
          /\ (pc = "allocate" /\ f \notin CopiedFields) => params'[f] = params[f]
          /\ (pc # "allocate" /\ f \notin RewrittenFields) => params'[f] = params[f]
      ]_vars

\* C4 witness: a run has ended after the shelf adjustment changed
\* storage_area, calculate_financials stored the one-time total and the
\* tab swept the tariffs, with usable_area and the other areas as copied.
C4_Witness ==
    /\ pc = "done"
    /\ params.storage_area # areas.storage_area
    /\ params.one_time_expenses = R(400000)
    /\ Len(df_sensitivity.profits) = SweepPoints
    /\ params.usable_area = areas.usable_area
    /\ params.loan_area = areas.loan_area

\* C5: when validate_inputs returns ok = false the script stops: the only
\* function ever called is the validator, and the failure is the (false,
\* reason) result, which is what st.error shows.
C5_RejectedStops ==
    (pc # "validate" /\ is_valid = FALSE) =>
        /\ pc = "rejected"
        /\ calls = {"validate_inputs"}
        /\ error_message # MsgNone
        /\ st_error = error_message

\* C5 witness: a record whose manual areas exceed the usable area was
\* rejected and the script has stopped with that reason shown.
C5_Witness ==
    /\ pc = "rejected" /\ is_valid = FALSE
    /\ params.mode = ModeManual
    /\ st_error = MsgManualOver(ManualSum(params), usable_area_of(params))

-----------------------------------------------------------------------------
(* numpy's global generator and monte_carlo_simulation                      *)
(* (calculations.py:224-265).  The generator is modelled as a small linear  *)
(* congruential one: what matters is that np.random.seed fixes its state   *)
(* and that every draw is a function of the state and moves it on.         *)

\* the number of states of the modelled generator
RngModulus == 8
RngStates == 0 .. (RngModulus - 1)

\* np.random.seed(seed): the state a seed sets
rng_seeded(seed) == seed % RngModulus

\* the state after one draw
rng_next(s) == (5 * s + 3) % RngModulus

RECURSIVE rng_advance(_, _)
rng_advance(s, n) == IF n = 0 THEN s ELSE rng_advance(rng_next(s), n - 1)

\* np.random.uniform(low, high) drawn in state s
rng_uniform(low, high, s) ==
    RAdd(low, RMul(RSub(high, low), Q(s, RngModulus)))

RECURSIVE RPow(_, _)
RPow(x, n) == IF n = 0 THEN One ELSE RMul(x, RPow(x, n - 1))

\* Variant (not the code): the simulation draws from the generator as it finds it
unseeded_state(seed, state) == state

\* calculations.py:239: the generator's state when the draws begin
seeded_state(seed, state) == rng_seeded(seed)

\* The sum over the rows i = 1 .. n of f[i]
RECURSIVE ColumnSum(_, _)
ColumnSum(f, n) == IF n = 0 THEN Zero ELSE RAdd(ColumnSum(f, n - 1), f[n])

\* monte_carlo_simulation called with the arguments a while the global
\* generator is in the given state: the table returned (one <<month, mean
\* income, mean expenses, mean profit>> per month) and the state the
\* generator is left in.  np.random.seed raises ValueError for a negative
\* seed.
monte_carlo_simulation(a, state) ==
    IF a.seed < 0
    THEN [table |-> <<"ValueError">>, rng |-> state, raised |-> TRUE]
    ELSE
    LET s0 == seeded_state(a.seed, state)
        n == a.simulations * a.time_horizon
        low == RSub(One, a.deviation)
        high == RAdd(One, a.deviation)
        \* element [i][j] of the k-th array drawn, row-major
        factor(k, i, j) ==
            rng_uniform(low, high,
                rng_advance(s0, k * n + (i - 1) * a.time_horizon + (j - 1)))
        income(i, j) ==
            RMul(RMul(a.base_income, RPow(RAdd(One, a.monthly_income_growth), j)),
                 factor(0, i, j))
        expense(i, j) ==
            RMul(RMul(a.base_expenses, RPow(RAdd(One, a.monthly_expenses_growth), j)),
                 factor(1, i, j))
        mean(f) == RDiv(ColumnSum(f, a.simulations), R(a.simulations))
    IN  [table |->
            [j \in 1 .. a.time_horizon |->
                <<j,
                  mean([i \in 1 .. a.simulations |-> income(i, j)]),
                  mean([i \in 1 .. a.simulations |-> expense(i, j)]),
                  mean([i \in 1 .. a.simulations |->
                           RSub(income(i, j), expense(i, j))])>>],
         rng |-> rng_advance(s0, 2 * n), raised |-> FALSE]

\* The same function step by step, as two threads of one process run it
\* against the one generator all of numpy's module-level functions share.

\* np.random.uniform(low, high, (simulations, time_horizon)) drawn from the
\* generator in state s: the n values in row-major order
rng_draws(low, high, s, n) ==
    [k \in 1 .. n |-> rng_uniform(low, high, rng_advance(s, k - 1))]

\* calculations.py:250-263: the table made of the two arrays of factors
mc_table(a, income_factors, expense_factors) ==
    LET at(i, j) == (i - 1) * a.time_horizon + j
        income(i, j) ==
            RMul(RMul(a.base_income, RPow(RAdd(One, a.monthly_income_growth), j)),
                 income_factors[at(i, j)])
        expense(i, j) ==
            RMul(RMul(a.base_expenses, RPow(RAdd(One, a.monthly_expenses_growth), j)),
                 expense_factors[at(i, j)])
        mean(f) == RDiv(ColumnSum(f, a.simulations), R(a.simulations))
    IN  [j \in 1 .. a.time_horizon |->
            <<j,
              mean([i \in 1 .. a.simulations |-> income(i, j)]),
              mean([i \in 1 .. a.simulations |-> expense(i, j)]),
              mean([i \in 1 .. a.simulations |->
                       RSub(income(i, j), expense(i, j))])>>]

-----------------------------------------------------------------------------
(* Direct calls of the calculators of calculations.py, each on arguments   *)
(* drawn from a small set: the financial engine and the calculators that   *)
(* read its result on allocated records, and calculate_items,              *)
(* calculate_roi, calculate_irr and monte_carlo_simulation on their own    *)
(* arguments.                                                              *)

\* bounds of the arguments drawn
MaxSimulations == 2
MaxHorizon == 2

Horizons == {-1, 0, 1, 6}
LoanRates == {R(-1), Zero, Q(317, 1000)}

\* the tariffs of the tests' record, or none charged
WithFees(p, charged) ==
    IF charged THEN p
    ELSE [p EXCEPT !.storage_fee = Zero, !.vip_extra_fee = Zero,
                   !.short_term_daily_rate = Zero,
                   !.item_realization_markup = Zero]

\* the monthly and one-time cost lines of the tests' record, none at all,
\* or a salary line that is a credit
WithExpenses(p, kind) ==
    IF kind = "test" THEN p
    ELSE IF kind = "credit" THEN [p EXCEPT !.salary_expense = R(-660000)]
    ELSE [p EXCEPT !.rental_cost_per_m2 = Zero, !.salary_expense = Zero,
                   !.miscellaneous_expenses = Zero, !.depreciation_expense = Zero,
                   !.marketing_expenses = Zero, !.insurance_expenses = Zero,
                   !.taxes = Zero, !.utilities_expenses = Zero,
                   !.maintenance_expenses = Zero,
                   !.one_time_setup_cost = Zero, !.one_time_equipment_cost = Zero,
                   !.one_time_other_costs = Zero, !.one_time_legal_cost = Zero,
                   !.one_time_logistics_cost = Zero]

\* records before allocation: equal shares, one category only, or manual
\* areas (all zero, or 10 m2 each)
CalcLayouts ==
    {WithShares(TestParams, Q(1, 4), 1, 1, 1, 1),
     WithShares(TestParams, Q(1, 4), 4, 0, 0, 0),
     WithShares(TestParams, Q(1, 4), 0, 4, 0, 0),
     WithManual(TestParams, 0, 0, 0, 0),
     WithManual(TestParams, 1, 1, 1, 1)}

\* allocated records: calculate_areas has run and its result is copied onto
\* the record
CalcRecords ==
    {copy_areas(r, calculate_areas(r)) :
        r \in {[WithExpenses(WithFees(l, c), e)
                   EXCEPT !.time_horizon = h, !.loan_interest_rate = i] :
               l \in CalcLayouts, c \in BOOLEAN,
               e \in {"test", "none", "credit"}, h \in Horizons, i \in LoanRates}}

ItemFactors == {Zero, Q(25, 2), R(3), R(5), R(10)}
RoiAmounts == {R(-100), Zero, R(50), R(100)}

\* integer cash flows: the tests' list, lists whose rate is exactly 50 %,
\* 0 % and -10 %, a list with two rates (10 % and 20 %), and a list with
\* none
CashFlowCases ==
    {<<-100000, 30000, 40000, 50000>>, <<-40, 30, 45>>, <<-100, 50, 50>>,
     <<-100, 90>>, <<-100, 230, -132>>, <<100, 100>>}

McArgs ==
    [base_income : {R(1000)}, base_expenses : {R(500)},
     time_horizon : {1, MaxHorizon}, simulations : {1, MaxSimulations},
     deviation : {Q(1, 10)}, seed : {-1, 1, 42},
     monthly_income_growth : {Q(1, 10)},
     monthly_expenses_growth : {Zero}]

InitCalc ==
    /\ \/ /\ params \in CalcRecords
          /\ pc = "fin_start"
          /\ rng_state = 0
       \/ /\ params = TestParams
          /\ pc \in {"items_start", "roi_start", "irr_start"}
          /\ rng_state = 0
       \/ /\ params = TestParams
          /\ pc = "mc_start"
          /\ rng_state \in RngStates
    /\ is_valid = Unset /\ error_message = Unset /\ areas = Unset
    /\ areas_scaled = Unset /\ scale = One
    /\ calls = {} /\ st_error = Unset
    /\ items_dict = Unset /\ base_financials = Unset /\ metrics = Unset
    /\ roi_val = Unset /\ cash_flows = Unset /\ irr_val = Unset /\ bep_val = Unset
    /\ min_loan = Unset /\ df_projection = Unset /\ tab3_bep = Unset
    /\ sweep = Unset /\ df_sensitivity = Unset /\ df_results = Unset
    /\ args = Unset /\ result = Unset
    /\ mc_first = Unset /\ mc_last = Unset
    /\ mc_proc = Unset /\ shares = Unset /\ share_log = Unset

\* calculate_financials(params, disable_extended); args keeps the record as
\* it was passed
CalcFinancials ==
    /\ pc = "fin_start"
    /\ args' = params
    /\ base_financials' = calculate_financials(params).fin
    /\ params' = calculate_financials(params).params
    /\ pc' = "fin_done"
    /\ UNCHANGED <<is_valid, error_message, areas, calls, st_error, allocVars,
                   items_dict, metrics, roi_val, cash_flows, irr_val, bep_val,
                   tabVars, result, rng_state, mc_first, mc_last>>
    /\ UNCHANGED sessVars

\* calculate_financials(params, False) called a second time, straight after
\* the first call, on the record the first call left
CalcFinancialsAgain ==
    /\ pc = "fin_done"
    /\ result' = [fin |-> calculate_financials(params).fin, before |-> params]
    /\ params' = calculate_financials(params).params
    /\ pc' = "fin_again"
    /\ UNCHANGED <<is_valid, error_message, areas, calls, st_error, allocVars,
                   resultVars, tabVars, args, rng_state, mc_first, mc_last>>
    /\ UNCHANGED sessVars

\* utils.py:150-153: the loop of perform_sensitivity_analysis, each round
\* setting the parameter and calling calculate_financials on the record
RECURSIVE sensitivity_loop(_, _, _, _)
sensitivity_loop(p, param_key, param_values, results) ==
    IF param_values = <<>> THEN [params |-> p, results |-> results]
    ELSE LET v == Head(param_values)
             call == calculate_financials([p EXCEPT ![param_key] = v])
         IN  sensitivity_loop(call.params, param_key, Tail(param_values),
                              Append(results, <<v, call.fin.profit>>))

\* perform_sensitivity_analysis(params, param_key, param_values,
\* disable_extended): the rows returned and the record as the call leaves it
perform_sensitivity_analysis(p, param_key, param_values) ==
    LET base_val == p[param_key]
        run == sensitivity_loop(p, param_key, param_values, <<>>)
    IN  [df |-> run.results,
         params |-> [run.params EXCEPT ![param_key] = base_val]]

\* parameters and trial values a sweep is asked for
SensitivityKeys == {"storage_fee", "one_time_setup_cost"}
SensitivityValues == {<<R(10)>>, <<Zero, R(20)>>}

\* perform_sensitivity_analysis on a record calculate_financials has
\* processed; args keeps the record and the arguments as they were passed
CalcSensitivity ==
    /\ pc = "fin_done"
    /\ \E param_key \in SensitivityKeys, param_values \in SensitivityValues :
          LET run == perform_sensitivity_analysis(params, param_key, param_values)
          IN  /\ args' = [before |-> params, param_key |-> param_key,
                          param_values |-> param_values]
              /\ result' = run.df
              /\ params' = run.params
    /\ pc' = "sens_done"
    /\ UNCHANGED <<is_valid, error_message, areas, calls, st_error, allocVars,
                   resultVars, tabVars, rng_state, mc_first, mc_last>>
    /\ UNCHANGED sessVars

\* calculate_total_bep(financials, params)
CalcTotalBep ==
    /\ pc = "fin_done"
    /\ bep_val' = calculate_total_bep(base_financials, params)
    /\ pc' = "bep_done"
    /\ UNCHANGED <<params, is_valid, error_message, areas, calls, st_error,
                   allocVars, items_dict, base_financials, metrics, roi_val,
                   cash_flows, irr_val, tabVars, calcVars>>
    /\ UNCHANGED sessVars

\* min_loan_amount_for_bep(params, fin)
CalcMinLoan ==
    /\ pc = "bep_done"
    /\ min_loan' = min_loan_amount_for_bep(params, base_financials)
    /\ pc' = "loan_done"
    /\ UNCHANGED <<params, is_valid, error_message, areas, calls, st_error,
                   allocVars, resultVars, df_projection, tab3_bep, sweep,
                   df_sensitivity, df_results, calcVars>>
    /\ UNCHANGED sessVars

\* calculate_items(area, shelves, density)
CalcItems ==
    /\ pc = "items_start"
    /\ \E area, shelves, density \in ItemFactors :
          /\ args' = <<area, shelves, density>>
          /\ result' = calculate_items(area, shelves, density)
    /\ pc' = "items_done"
    /\ UNCHANGED <<params, is_valid, error_message, areas, calls, st_error,
                   allocVars, resultVars, tabVars, rng_state, mc_first, mc_last>>
    /\ UNCHANGED sessVars

\* calculate_roi(total_income, total_expenses)
CalcRoi ==
    /\ pc = "roi_start"
    /\ \E total_income, total_expenses \in RoiAmounts :
          /\ args' = <<total_income, total_expenses>>
          /\ result' = calculate_roi(total_income, total_expenses)
    /\ pc' = "roi_done"
    /\ UNCHANGED <<params, is_valid, error_message, areas, calls, st_error,
                   allocVars, resultVars, tabVars, rng_state, mc_first, mc_last>>
    /\ UNCHANGED sessVars

\* calculate_irr(cash_flows); args keeps what npf.irr did
CalcIrr ==
    /\ pc = "irr_start"
    /\ \E values \in CashFlowCases :
          \E outcome \in npf_irr(values) :
             /\ cash_flows' = values
             /\ args' = outcome
             /\ result' = calculate_irr(outcome)
    /\ pc' = "irr_done"
    /\ UNCHANGED <<params, is_valid, error_message, areas, calls, st_error,
                   allocVars, items_dict, base_financials, metrics, roi_val,
                   irr_val, bep_val, tabVars, rng_state, mc_first, mc_last>>
    /\ UNCHANGED sessVars

\* monte_carlo_simulation(...): the first call, and every later one after
\* whatever else used the generator in between
CalcMonteCarlo ==
    /\ pc \in {"mc_start", "mc_between"}
    /\ \E a \in McArgs :
          LET run == monte_carlo_simulation(a, rng_state)
          IN  /\ mc_last' = [args |-> a, table |-> run.table,
                             again |-> (pc = "mc_between"),
                             raised |-> run.raised]
              /\ mc_first' = IF pc = "mc_start"
                             THEN [args |-> a, table |-> run.table]
                             ELSE mc_first
              /\ rng_state' = run.rng
    /\ pc' = "mc_called"
    /\ UNCHANGED <<params, is_valid, error_message, areas, calls, st_error,
                   allocVars, resultVars, tabVars, args, result>>
    /\ UNCHANGED sessVars

\* whatever uses np.random between two simulations: draws, other
\* simulations, or a reseeding such as utils.monte_carlo_simulation_utils
\* makes (utils.py:60-62); it leaves the generator in any state
OtherRandomUse ==
    /\ pc = "mc_called"
    /\ rng_state' \in RngStates
    /\ pc' = "mc_between"
    /\ UNCHANGED <<params, is_valid, error_message, areas, calls, st_error,
                   allocVars, resultVars, tabVars, args, result, mc_first, mc_last>>
    /\ UNCHANGED sessVars

NextCalc ==
    \/ CalcFinancials \/ CalcFinancialsAgain \/ CalcTotalBep \/ CalcMinLoan
    \/ CalcSensitivity
    \/ CalcItems \/ CalcRoi \/ CalcIrr
    \/ CalcMonteCarlo \/ OtherRandomUse

SpecCalc == InitCalc /\ [][NextCalc]_vars

-----------------------------------------------------------------------------
(* Properties of the calculators, checked under SpecCalc                   *)

FinancialsDone == pc \in {"fin_done", "bep_done", "loan_done"}

\* the five one-time cost lines of a record, added up
OneTimeTotal(p) ==
    RAdd(p.one_time_setup_cost,
         RAdd(p.one_time_equipment_cost,
              RAdd(p.one_time_other_costs,
                   RAdd(p.one_time_legal_cost, p.one_time_logistics_cost))))

\* a rational number: not NaN, None, an exception or an infinity
IsReal(x) == Len(x) = 2 /\ x[1] \in Int /\ x[2] \in Nat /\ x[2] > 0

\* C11: calculate_items(area, shelves, density) returns the product
\* area * shelves * density with no rounding (calculate_items(10, 3, 5) = 150)
\* and returns 0 whenever one of the three factors is 0.
C11_ItemsProduct ==
    pc = "items_done" =>
        /\ result = RMul(args[1], RMul(args[2], args[3]))
        /\ (Zero \in {args[1], args[2], args[3]} => result = Zero)
        /\ (args = <<R(10), R(3), R(5)>> => result = R(150))

\* calculate_items(12.5, 3, 5) has returned 187.5
C11_Witness ==
    /\ pc = "items_done"
    /\ args = <<Q(25, 2), R(3), R(5)>>
    /\ result = Q(375, 2)

\* C12: for every allocated record the total_income calculate_financials
\* returns is the sum of the storage, VIP, short-term, loan interest and
\* resale incomes it reports, and the marketing_income it reports is 0.
C12_TotalIncomeIsSum ==
    FinancialsDone =>
        /\ base_financials.total_income =
              RAdd(base_financials.storage_income,
                   RAdd(base_financials.vip_income,
                        RAdd(base_financials.short_term_income,
                             RAdd(base_financials.loan_income_after_realization,
                                  base_financials.realization_income))))
        /\ base_financials.marketing_income = Zero

\* a result all five of whose income categories are positive
C12_Witness ==
    /\ pc = "fin_done"
    /\ RGt(base_financials.storage_income, Zero)
    /\ RGt(base_financials.vip_income, Zero)
    /\ RGt(base_financials.short_term_income, Zero)
    /\ RGt(base_financials.loan_income_after_realization, Zero)
    /\ RGt(base_financials.realization_income, Zero)

\* C13: the profit calculate_financials returns is total_income -
\* total_monthly_expenses - one_time_total / time_horizon when
\* time_horizon > 0 and total_income - total_monthly_expenses when
\* time_horizon <= 0; the function returns for every time_horizon.
C13_ProfitFormula ==
    FinancialsDone =>
        /\ IsReal(base_financials.profit)
        /\ IF args.time_horizon > 0
           THEN RAdd(base_financials.profit,
                     RAdd(base_financials.total_expenses,
                          RDiv(OneTimeTotal(args), R(args.time_horizon))))
                = base_financials.total_income
           ELSE RAdd(base_financials.profit, base_financials.total_expenses)
                = base_financials.total_income

\* a record with horizon 0 and one-time costs: they are left out of the profit
C13_Witness ==
    /\ pc = "fin_done"
    /\ args.time_horizon = 0
    /\ RGt(OneTimeTotal(args), Zero)
    /\ base_financials.profit =
          RSub(base_financials.total_income, base_financials.total_expenses)

\* C14 as stated: for every allocated record with time_horizon > 0 that has
\* gone through calculate_financials, calculate_total_bep returns exactly
\* total_expenses + one_time_total / time_horizon.
C14_BepIsExpenses ==
    (pc \in {"bep_done", "loan_done"} /\ params.time_horizon > 0) =>
        bep_val = RAdd(base_financials.total_expenses,
                       RDiv(OneTimeTotal(params), R(params.time_horizon)))

\* C14: for every allocated record with time_horizon > 0 that has gone
\* through calculate_financials and whose total_income is not 0,
\* calculate_total_bep returns exactly total_expenses + one_time_total /
\* time_horizon.
C14_BepIsExpensesWithIncome ==
    (/\ pc \in {"bep_done", "loan_done"}
     /\ params.time_horizon > 0
     /\ base_financials.total_income # Zero) =>
        bep_val = RAdd(base_financials.total_expenses,
                       RDiv(OneTimeTotal(params), R(params.time_horizon)))

\* horizon 6, an income, one-time costs: the break-even income is above the
\* monthly expenses
C14_Witness ==
    /\ pc = "bep_done"
    /\ params.time_horizon = 6
    /\ base_financials.total_income # Zero
    /\ RGt(OneTimeTotal(params), Zero)
    /\ RGt(bep_val, base_financials.total_expenses)

\* C15: whenever the financial result's total_income is 0,
\* calculate_total_bep returns positive infinity, whatever the expenses and
\* the horizon.
C15_ZeroIncomeInfinite ==
    (pc \in {"bep_done", "loan_done"} /\ base_financials.total_income = Zero) =>
        bep_val = Inf

\* no income, expenses and a positive horizon: infinity all the same
C15_Witness ==
    /\ pc = "bep_done"
    /\ base_financials.total_income = Zero
    /\ RGt(base_financials.total_expenses, Zero)
    /\ params.time_horizon > 0
    /\ bep_val = Inf

\* C16: calculate_roi(total_income, total_expenses) returns positive
\* infinity when total_expenses = 0, for any total_income, and
\* (total_income - total_expenses) / total_expenses * 100 otherwise.
C16_RoiSentinel ==
    pc = "roi_done" =>
        IF args[2] = Zero THEN result = Inf
        ELSE /\ IsReal(result)
             /\ RMul(result, args[2]) = RMul(RSub(args[1], args[2]), R(100))

\* a negative income with no expenses
C16_Witness ==
    /\ pc = "roi_done"
    /\ args = <<R(-100), Zero>>
    /\ result = Inf

\* C17: calculate_irr always returns a real number: 0.0 whenever the solver
\* raises, returns None or returns NaN, and never None, NaN or an exception.
C17_IrrAlwaysReal ==
    pc = "irr_done" =>
        /\ IsReal(result)
        /\ (args[1] \in {"nan", "none", "raise"} => result = Zero)

\* the solver raised on the tests' list
C17_Witness ==
    /\ pc = "irr_done"
    /\ cash_flows = <<-100000, 30000, 40000, 50000>>
    /\ args = <<"raise">>
    /\ result = Zero

\* the values change sign exactly once, so they have one rate above -100 %
RECURSIVE SignChanges(_, _)
SignChanges(values, t) ==
    IF t >= Len(values) THEN 0
    ELSE SignChanges(values, t + 1)
         + (IF (values[t] < 0) # (values[t + 1] < 0) THEN 1 ELSE 0)

\* an independent root-finder: bisection of the net present value between
\* the steps lo and hi, where it has opposite signs
RECURSIVE Bisect(_, _, _)
Bisect(values, lo, hi) ==
    IF hi - lo <= 1 THEN lo
    ELSE LET mid == (lo + hi) \div 2
         IN  IF NpvSign(values, mid) = 0 THEN mid
             ELSE IF NpvSign(values, mid) = NpvSign(values, lo)
                  THEN Bisect(values, mid, hi)
                  ELSE Bisect(values, lo, mid)

\* the step of a rate given in percent, -1 - RateScale if it is on no step
StepOfPercent(x) ==
    LET k == (x[1] * (RateScale \div 100)) \div x[2]
    IN  IF IsReal(x) /\ RMul(RateOf(k), R(100)) = x THEN k ELSE 0 - 1 - RateScale

C19_MinLoan ==
    pc = "loan_done" =>
        LET L == base_financials.loan_items
            E == IF params.time_horizon > 0
                 THEN RAdd(base_financials.total_expenses,
                           RDiv(OneTimeTotal(params), R(params.time_horizon)))
                 ELSE base_financials.total_expenses
            r == IF RGt(params.loan_interest_rate, Zero)
                 THEN RDiv(params.loan_interest_rate, R(100)) ELSE Q(1, 10000)
        IN  /\ IsReal(min_loan)
            /\ IF RLe(L, Zero) \/ RLt(E, Zero) THEN min_loan = Zero
               ELSE RMul(min_loan, RMul(L, RMul(r, R(30)))) = E

\* loan items, expenses to cover and no interest configured: the default
\* rate gives a positive finite principal
C19_Witness ==
    /\ pc = "loan_done"
    /\ RGt(base_financials.loan_items, Zero)
    /\ params.loan_interest_rate = Zero
    /\ params.time_horizon = 6
    /\ RGt(min_loan, Zero)

\* C20: two calls of monte_carlo_simulation with the same arguments return
\* the same table, whatever used the generator between them.
C20_MonteCarloDeterministic ==
    (pc \in {"mc_called", "mc_between"} /\ mc_last.args = mc_first.args) =>
        mc_last.table = mc_first.table

\* a later call with the first call's arguments and a valid seed has returned
C20_Witness ==
    /\ pc = "mc_called"
    /\ mc_last.again
    /\ mc_last.args = mc_first.args
    /\ mc_last.args.seed = 42
    /\ mc_last.args.simulations = MaxSimulations
    /\ mc_last.table = mc_first.table

-----------------------------------------------------------------------------
(* Two evaluations in monte_carlo_simulation at the same time: two         *)
(* dashboard sessions are two threads of one process, and np.random.seed   *)
(* and np.random.uniform act on the one generator of the numpy module.     *)
(* Each of calculations.py:239, 246 and 247 is one step.                   *)

Evaluations == {1, 2}

\* arguments np.random.seed accepts
McArgsSeeded == {a \in McArgs : a.seed >= 0}

InitConcurrent ==
    /\ \E a1, a2 \in McArgsSeeded :
          mc_proc = [i \in Evaluations |->
                        [pc |-> "seed", args |-> (IF i = 1 THEN a1 ELSE a2),
                         income_factors |-> <<>>, expense_factors |-> <<>>,
                         table |-> <<>>]]
    /\ rng_state = 0
    /\ params = TestParams
    /\ pc = "concurrent"
    /\ is_valid = Unset /\ error_message = Unset /\ areas = Unset
    /\ areas_scaled = Unset /\ scale = One
    /\ calls = {} /\ st_error = Unset
    /\ items_dict = Unset /\ base_financials = Unset /\ metrics = Unset
    /\ roi_val = Unset /\ cash_flows = Unset /\ irr_val = Unset /\ bep_val = Unset
    /\ min_loan = Unset /\ df_projection = Unset /\ tab3_bep = Unset
    /\ sweep = Unset /\ df_sensitivity = Unset /\ df_results = Unset
    /\ args = Unset /\ result = Unset
    /\ mc_first = Unset /\ mc_last = Unset
    /\ shares = Unset /\ share_log = Unset

McFrame ==
    UNCHANGED <<params, pc, is_valid, error_message, areas, calls, st_error,
                allocVars, resultVars, tabVars, args, result, mc_first, mc_last,
                shares, share_log>>

\* calculations.py:239
McSeed(i) ==
    /\ mc_proc[i].pc = "seed"
    /\ rng_state' = seeded_state(mc_proc[i].args.seed, rng_state)
    /\ mc_proc' = [mc_proc EXCEPT ![i].pc = "income"]
    /\ McFrame

\* calculations.py:246
McDrawIncome(i) ==
    /\ mc_proc[i].pc = "income"
    /\ LET a == mc_proc[i].args
           n == a.simulations * a.time_horizon
       IN  /\ mc_proc' = [mc_proc EXCEPT
                  ![i].pc = "expense",
                  ![i].income_factors =
                      rng_draws(RSub(One, a.deviation), RAdd(One, a.deviation),
                                rng_state, n)]
           /\ rng_state' = rng_advance(rng_state, n)
    /\ McFrame

\* calculations.py:247-265
McDrawExpense(i) ==
    /\ mc_proc[i].pc = "expense"
    /\ LET a == mc_proc[i].args
           n == a.simulations * a.time_horizon
           drawn == rng_draws(RSub(One, a.deviation), RAdd(One, a.deviation),
                              rng_state, n)
       IN  /\ mc_proc' = [mc_proc EXCEPT
                  ![i].pc = "done",
                  ![i].expense_factors = drawn,
                  ![i].table = mc_table(a, mc_proc[i].income_factors, drawn)]
           /\ rng_state' = rng_advance(rng_state, n)
    /\ McFrame

NextConcurrent ==
    \E i \in Evaluations : McSeed(i) \/ McDrawIncome(i) \/ McDrawExpense(i)

SpecConcurrent == InitConcurrent /\ [][NextConcurrent]_vars

\* C21 as stated: when two evaluations run monte_carlo_simulation at the
\* same time, their seed and draw steps interleaved in any order, each call
\* returns the table it returns when run alone with the same arguments.
C21_ConcurrentAsAlone ==
    \A i \in Evaluations :
        mc_proc[i].pc = "done" =>
            mc_proc[i].table = monte_carlo_simulation(mc_proc[i].args, 0).table

\* C22 as stated: a call to monte_carlo_simulation leaves the state of the
\* process-wide random generator as it found it, so what other code draws
\* from that generator afterwards is what it would have drawn without the
\* call.
C22_GeneratorUntouched ==
    [][(pc \in {"mc_start", "mc_between"} /\ pc' = "mc_called")
          => rng_state' = rng_state]_vars

\* C23: for every record that has gone through calculate_financials and
\* whose total_income is not 0, whatever its time_horizon (positive, zero or
\* negative), the profit of the financial result is total_income minus the
\* value calculate_total_bep returns for that result and record.
C23_ProfitIsIncomeMinusBep ==
    (/\ pc \in {"bep_done", "loan_done"}
     /\ base_financials.total_income # Zero) =>
        base_financials.profit = RSub(base_financials.total_income, bep_val)

\* a negative horizon with one-time costs and an income: neither function
\* charges the one-time costs
C23_Witness ==
    /\ pc = "bep_done"
    /\ params.time_horizon < 0
    /\ base_financials.total_income # Zero
    /\ RGt(params.one_time_expenses, Zero)
    /\ bep_val = base_financials.total_expenses
    /\ base_financials.profit = RSub(base_financials.total_income, bep_val)

RatioOk(p) == RGt(p.useful_area_ratio, Zero) /\ RLe(p.useful_area_ratio, One)

\* C24: validate_inputs tests (1) total area > 0, (2) 0 < useful-area ratio
\* <= 1, then (3) the share-sum rule in proportional mode or (4) the
\* manual-area-sum rule in manual mode, and the first failure wins: a record
\* that violates rule 1 gets the reason of rule 1 whatever else it violates,
\* a record that passes rule 1 and violates rule 2 gets the reason of rule
\* 2, a rejected record that passes both gets a reason of its mode's rule;
\* the reason is empty exactly when ok = true.
C24_FirstFailureWins ==
    Validated =>
        /\ RLe(params.total_area, Zero) => error_message = MsgTotalArea
        /\ (RGt(params.total_area, Zero) /\ ~RatioOk(params)) =>
              error_message = MsgUsefulRatio
        /\ (GeometryOk(params) /\ ~is_valid /\ params.mode = ModeAuto) =>
              error_message \in {MsgShareSumZero, MsgShareSumOver}
        /\ (GeometryOk(params) /\ ~is_valid /\ params.mode # ModeAuto) =>
              error_message \in
                  {MsgManualZero,
                   MsgManualOver(ManualSum(params),
                                 RMul(params.total_area, params.useful_area_ratio))}
        /\ (error_message = MsgNone) <=> is_valid

\* a proportional record that violates rules 1, 2 and 3 at once is rejected
\* with the reason of rule 1
C24_Witness ==
    /\ pc = "validated"
    /\ params.mode = ModeAuto
    /\ RLe(params.total_area, Zero)
    /\ ~RatioOk(params)
    /\ ShareSum(params) = Zero
    /\ ~is_valid
    /\ error_message = MsgTotalArea

\* C25: in proportional mode calculate_areas returns a complete result for
\* every record: usable_area = total_area * useful_area_ratio; when the share
\* sum is below 1e-9 the four areas are 0; otherwise each area is
\* usable_area * share / share_sum, and the four areas add up to the usable
\* area, also when the shares sum to less than 1.
C25_ProportionalAreas ==
    (Allocated /\ params.mode = ModeAuto) =>
        LET usable == RMul(params.total_area, params.useful_area_ratio)
            total == ShareSum(params)
            part(share) == RDiv(RMul(usable, share), total)
        IN  /\ DOMAIN areas = {"usable_area"} \cup AreaKeys
            /\ areas.usable_area = usable
            /\ IF RLt(total, Eps)
               THEN \A k \in AreaKeys : areas[k] = Zero
               ELSE /\ areas.storage_area = part(params.storage_share)
                    /\ areas.loan_area = part(params.loan_share)
                    /\ areas.vip_area = part(params.vip_share)
                    /\ areas.short_term_area = part(params.short_term_share)
                    /\ AreaSum(areas) = usable

\* a single share of one quarter, the three others 0: that class is given
\* the whole usable area
C25_Witness ==
    /\ pc = "allocated"
    /\ params.mode = ModeAuto
    /\ params.storage_share = Q(1, 4)
    /\ ShareSum(params) = Q(1, 4)
    /\ RGt(areas.usable_area, Zero)
    /\ areas.storage_area = areas.usable_area

\* the closed interval between base * (1 + growth)^m * (1 - deviation) and
\* base * (1 + growth)^m * (1 + deviation)
WithinDeviation(x, base, growth, m, deviation) ==
    LET centre == RMul(base, RPow(RAdd(One, growth), m))
    IN  /\ RLe(RMul(centre, RSub(One, deviation)), x)
        /\ RLe(x, RMul(centre, RAdd(One, deviation)))

\* C26 as stated: for base_income >= 0, base_expenses >= 0, deviation >= 0
\* and trials >= 1, monte_carlo_simulation returns a table with one row per
\* month 1..horizon in ascending order; in row m the average income lies
\* between base_income * (1 + income_growth)^m * (1 - deviation) and
\* base_income * (1 + income_growth)^m * (1 + deviation), and the average
\* expense in the same interval of base_expenses and expense_growth; with
\* deviation 0 every row is the compound-growth value itself.
C26_RowsWithinDeviation ==
    (/\ pc \in {"mc_called", "mc_between"}
     /\ RGe(mc_last.args.base_income, Zero)
     /\ RGe(mc_last.args.base_expenses, Zero)
     /\ RGe(mc_last.args.deviation, Zero)
     /\ mc_last.args.simulations >= 1) =>
        LET a == mc_last.args
        IN  /\ ~mc_last.raised
            /\ Len(mc_last.table) = a.time_horizon
            /\ \A m \in 1 .. a.time_horizon :
                  /\ mc_last.table[m][1] = m
                  /\ WithinDeviation(mc_last.table[m][2], a.base_income,
                                     a.monthly_income_growth, m, a.deviation)
                  /\ WithinDeviation(mc_last.table[m][3], a.base_expenses,
                                     a.monthly_expenses_growth, m, a.deviation)

\* C27: calculate_financials called twice in a row on the same record
\* returns two results equal field by field, and the second call leaves the
\* record exactly as the first call left it.
C27_FinancialsTwice ==
    pc = "fin_again" =>
        /\ result.fin = base_financials
        /\ params = result.before

\* the first call changed one_time_expenses from 0 to a positive total, the
\* second call found that total and left it
C27_Witness ==
    /\ pc = "fin_again"
    /\ args.one_time_expenses = Zero
    /\ RGt(result.before.one_time_expenses, Zero)
    /\ params.one_time_expenses = result.before.one_time_expenses
    /\ result.fin = base_financials

\* C28: calculate_financials writes exactly one field of the record,
\* one_time_expenses, which it sets to the sum of the five one-time cost
\* lines, and leaves every other field as it was; validate_inputs writes no
\* field; calculate_areas writes no field, so that across the allocation
\* step the record changes only by the five values the caller copies from
\* the returned mapping.
C28_OneFieldWritten ==
    [][/\ pc = "validate" => params' = params
       /\ pc = "allocate" => params' = copy_areas(params, areas')
       /\ pc = "financials" =>
             /\ params'.one_time_expenses = OneTimeTotal(params)
             /\ \A f \in DOMAIN params \ {"one_time_expenses"} :
                   params'[f] = params[f]
      ]_vars

\* calculate_financials has run on an accepted, allocated record and stored
\* a positive total in a field that held 0
C28_Witness ==
    /\ pc = "metrics"
    /\ is_valid
    /\ "calculate_financials" \in calls
    /\ RGt(params.one_time_expenses, Zero)
    /\ params.one_time_expenses = OneTimeTotal(params)
    /\ params.usable_area = areas.usable_area

\* C29 as stated: a sensitivity sweep overwrites one parameter of the record
\* with each trial value and, when it returns, has restored it, so every
\* field of the record is the same after the sweep as before it.
C29_SweepRestoresRecord ==
    pc = "sens_done" => params = args.before

-----------------------------------------------------------------------------
(* The four shares of the sidebar, st.session_state.shares: the checkboxes *)
(* that switch a class off and the sliders, each of which calls            *)
(* normalize_shares (utils.py:120-137).                                    *)

ShareKeys == {"storage_share", "loan_share", "vip_share", "short_term_share"}

ShareTotal(s) ==
    Sum4(s["storage_share"], s["loan_share"], s["vip_share"], s["short_term_share"])

\* Variant (not the code): no division by the total at the end
normalize_shares_unscaled(s, changed_share_key, new_value) ==
    LET set == [s EXCEPT ![changed_share_key] = new_value]
        other_keys == ShareKeys \ {changed_share_key}
        total_other == ShareTotal([set EXCEPT ![changed_share_key] = Zero])
    IN  IF RGt(total_other, Zero)
        THEN [k \in ShareKeys |->
                 IF k \in other_keys
                 THEN RMax(Zero, RSub(set[k], RDiv(new_value, R(Cardinality(other_keys)))))
                 ELSE set[k]]
        ELSE set

\* normalize_shares(changed_share_key, new_value) applied to the shares s:
\* the shares it leaves in st.session_state
normalize_shares(s, changed_share_key, new_value) ==
    LET set == [s EXCEPT ![changed_share_key] = new_value]
        other_keys == ShareKeys \ {changed_share_key}
        total_other == ShareTotal([set EXCEPT ![changed_share_key] = Zero])
        lowered ==
            IF RGt(total_other, Zero)
            THEN [k \in ShareKeys |->
                     IF k \in other_keys
                     THEN RMax(Zero, RSub(set[k], RDiv(new_value,
                                                       R(Cardinality(other_keys)))))
                     ELSE set[k]]
            ELSE set
        total_sum == ShareTotal(lowered)
    IN  IF RGt(total_sum, Zero)
        THEN [k \in ShareKeys |-> RDiv(lowered[k], total_sum)]
        ELSE lowered

\* how many sidebar steps a run of the session makes
MaxShareSteps == 3

\* positions of the slider, main.py:48-55: whole per cents, as fractions
SliderValues == {Zero, Q(1, 4), Q(1, 2), One}

\* main.py:61-67
InitShares ==
    /\ shares = [k \in ShareKeys |-> Q(1, 4)]
    /\ share_log = [steps |-> 0, last |-> "init", key |-> "",
                    new_value |-> Zero, before |-> [k \in ShareKeys |-> Q(1, 4)]]
    /\ pc = "sidebar"
    /\ params = TestParams
    /\ is_valid = Unset /\ error_message = Unset /\ areas = Unset
    /\ areas_scaled = Unset /\ scale = One
    /\ calls = {} /\ st_error = Unset
    /\ items_dict = Unset /\ base_financials = Unset /\ metrics = Unset
    /\ roi_val = Unset /\ cash_flows = Unset /\ irr_val = Unset /\ bep_val = Unset
    /\ min_loan = Unset /\ df_projection = Unset /\ tab3_bep = Unset
    /\ sweep = Unset /\ df_sensitivity = Unset /\ df_results = Unset
    /\ args = Unset /\ result = Unset /\ rng_state = Unset
    /\ mc_first = Unset /\ mc_last = Unset
    /\ mc_proc = Unset

SharesFrame ==
    UNCHANGED <<params, pc, is_valid, error_message, areas, calls, st_error,
                allocVars, resultVars, tabVars, calcVars, mc_proc>>

\* main.py:127-134: a ticked checkbox sets its share to 0.0
DisableShare ==
    /\ pc = "sidebar"
    /\ share_log.steps < MaxShareSteps
    /\ \E k \in ShareKeys :
          /\ shares' = [shares EXCEPT ![k] = Zero]
          /\ share_log' = [steps |-> share_log.steps + 1, last |-> "checkbox",
                           key |-> k, new_value |-> Zero, before |-> shares]
    /\ SharesFrame

\* main.py:142-144 with input_storage_share (main.py:36-59): the slider of
\* one class is read and normalize_shares is called with its value
InputStorageShare ==
    /\ pc = "sidebar"
    /\ share_log.steps < MaxShareSteps
    /\ \E share_key \in ShareKeys, new_share \in SliderValues :
          /\ shares' = normalize_shares(shares, share_key, new_share)
          /\ share_log' = [steps |-> share_log.steps + 1, last |-> "normalize",
                           key |-> share_key, new_value |-> new_share,
                           before |-> shares]
    /\ SharesFrame

NextShares == DisableShare \/ InputStorageShare

SpecShares == InitShares /\ [][NextShares]_vars

AllZero(s) == \A k \in ShareKeys : s[k] = Zero

\* C30: after every normalize_shares(changed_key, new_value) call with
\* new_value in [0, 1], in any sequence of such calls that starts from four
\* non-negative shares, the stored shares are all non-negative and either
\* sum to exactly 1 or are all 0; they are all 0 only when the changed share
\* was set to 0 while every other share was 0 already.
C30_SharesNormalised ==
    (pc = "sidebar" /\ share_log.last = "normalize") =>
        /\ \A k \in ShareKeys : RGe(shares[k], Zero)
        /\ ShareTotal(shares) = One \/ AllZero(shares)
        /\ AllZero(shares) =>
              /\ share_log.new_value = Zero
              /\ \A k \in ShareKeys \ {share_log.key} : share_log.before[k] = Zero

\* a second or later call has lowered the other shares and rescaled all
\* four: the changed share is not the value asked for, and the sum is 1
C30_Witness ==
    /\ pc = "sidebar"
    /\ share_log.last = "normalize"
    /\ share_log.steps >= 2
    /\ share_log.new_value = Q(1, 2)
    /\ shares[share_log.key] # share_log.new_value
    /\ \E k \in ShareKeys \ {share_log.key} :
          RGt(shares[k], Zero) /\ shares[k] # share_log.before[k]
    /\ ShareTotal(shares) = One

====
